---- MODULE Spec2Model ----
(***************************************************************************)
(* Model of the CS_Tunnel relay: the AES-CFB cipher codec, the access      *)
(* control list, the server front-ends (raw accept loop and WebSocket      *)
(* handler chain) and the handshake/bridge of one tunnel session.          *)
(*                                                                         *)
(* Byte strings are sequences of integers 0..255.  Text that the code      *)
(* compares ("OK", "ERROR:", "USE_DEFAULT") is spelled as its ASCII bytes. *)
(***************************************************************************)
EXTENDS Integers, Sequences, FiniteSets, TLC

VARIABLES
    \* ---- cipher codec (pkg/crypto) ----
    cpc,        \* position of the codec exercise: "start", "encrypted", "decrypted"
    ctx,        \* the CipherContext (key) built by NewAESCipher
    plaintext,  \* the byte sequence handed to Encrypt
    ciphertext, \* the EncryptedBlock returned by Encrypt
    decrypted,  \* the result of Decrypt: [ok |-> BOOLEAN, data |-> bytes]
    \* ---- access control (pkg/acl) ----
    acl,        \* the ACL struct: enabled, mode, whitelist, blacklist, whiteIPs, blackIPs
    aclOp,      \* name of the last ACL method that returned ("New" after construction)
    \* ---- server front-end (Server.startTCP / Server.startWebSocket) ----
    srvMode,    \* "tcp" or "ws": Server.config.EnableWS
    ln,         \* the listening socket: "open" or "closed"
    conns,      \* the inbound connections so far, in arrival order
    \* ---- one tunnel session: initiator (Client), responder (Server) ----
    tr,         \* transport of the session: "tcp" (CryptoConn) or "ws" (WSConn)
    cli,        \* the initiator's handler: configuration, position, calls made
    srv,        \* the responder's handler: configuration, position, calls made
    loops,      \* the four forwarding loops, by name
    owner,      \* the local peer's connection to the initiator
    tunnel,     \* the connection between initiator and responder
    target,     \* the responder's connection to the target
    \* ---- framing exercises (CryptoConn over a byte stream) ----
    pipe,       \* a writer and a reader joined by a reliable byte stream
    lenx,       \* one frame followed by byte counts: header, lengths, buffers
    \* ---- service start-up (server.New, Server.Start) ----
    boot,       \* the configuration handed to server.New and how far start-up got
    \* ---- repeated and concurrent calls on one shared object ----
    encs,       \* the Encrypt calls made on one AESCipher: IV drawn, block returned
    cw,         \* goroutines calling WriteEncrypted on one CryptoConn, and its stream
    rw,         \* goroutines calling the methods of one ACL, and its RWMutex
    wsl,        \* goroutines writing on one WSConn, and its Mutex
    \* ---- service life cycle (Server.Start, Server.Stop) ----
    svc         \* where Start is, the field Server.ln, the Stop calls made

cryptoVars == <<cpc, ctx, plaintext, ciphertext, decrypted>>
aclVars == <<acl, aclOp>>

frontVars == <<srvMode, ln, conns>>

sessVars == <<tr, cli, srv, loops, owner, tunnel, target>>

frameVars == <<pipe, lenx>>

bootVars == <<boot>>

callVars == <<encs>>

lockVars == <<cw, rw, wsl>>

svcVars == <<svc>>

restVars == <<callVars, lockVars, svcVars>>

vars == <<cryptoVars, aclVars, frontVars, sessVars, frameVars, bootVars, restVars>>

notCryptoVars == <<aclVars, frontVars, sessVars, frameVars, bootVars, restVars>>
notAclVars == <<cryptoVars, frontVars, sessVars, frameVars, bootVars, restVars>>
notFrontVars == <<cryptoVars, sessVars, frameVars, bootVars, restVars>>
notSessVars == <<cryptoVars, aclVars, frontVars, frameVars, bootVars, restVars>>
notFrameVars == <<cryptoVars, aclVars, frontVars, sessVars, bootVars, restVars>>
notBootVars == <<cryptoVars, sessVars, frameVars, restVars>>
notRestVars == <<cryptoVars, aclVars, frontVars, sessVars, frameVars, bootVars>>
notSvcVars == <<cryptoVars, sessVars, frameVars, bootVars, callVars, lockVars>>
notRwVars == <<cryptoVars, frontVars, sessVars, frameVars, bootVars, callVars, cw, wsl, svcVars>>

(***************************************************************************)
(* Bounds                                                                  *)
(***************************************************************************)
\* longest short message enumerated byte by byte
MaxMsgLen == 2
\* width of a model IP address in bits (addresses are 0 .. 2^IPBits - 1)
IPBits == 2
\* most entries the four ACL lists hold together
MaxEntries == 2
\* most connections the raw accept loop accepts
MaxConns == 2
\* most HTTP requests the WebSocket front-end receives
MaxRequests == 1
\* bytes the local peer sends into a session
MaxOwnerBytes == 1
\* bytes the target sends into a session
MaxTargetBytes == 1
\* payloads one writer puts on the byte stream
MaxFrames == 2
\* most entries in each list of a configuration handed to server.New
MaxCfgEntries == 2
\* most calls of Server.Stop
MaxStops == 1
\* most Accept calls that fail while the listening socket is open
MaxAcceptErrors == 1
\* most frames a session relays in each direction once it is bridging
MaxRelay == 1
\* Encrypt calls made on one AESCipher with one plaintext
MaxCalls == 2
\* goroutines that call WriteEncrypted on one CryptoConn
MaxWriters == 2
\* malformed frames the far end sends during one session
MaxForged == 1

(***************************************************************************)
(* Byte arithmetic                                                         *)
(***************************************************************************)
Byte == 0..255

RECURSIVE XorBits(_, _, _)
XorBits(a, b, n) ==
    IF n = 0 THEN 0
    ELSE (((a % 2) + (b % 2)) % 2) + (2 * XorBits(a \div 2, b \div 2, n - 1))

\* one byte of cipher.Stream.XORKeyStream
Xor(a, b) == XorBits(a, b, 8)

Min(a, b) == IF a < b THEN a ELSE b

IsPrefix(s, t) == Len(s) <= Len(t) /\ SubSeq(t, 1, Len(s)) = s

(***************************************************************************)
(* pkg/crypto: AESCipher                                                   *)
(***************************************************************************)
BlockSize == 16

Passwords == {"pw1", "pw2"}

\* NewAESCipher: the key is a deterministic function of the password.
\* SHA-256 is stood in for by a fixed table of distinct key bytes.
NewAESCipher(password) == IF password = "pw1" THEN 41 ELSE 173

\* cipher.Block.Encrypt on one 16-byte block: a keyed mixing of the block.
\* CFB only ever uses the forward direction of the block cipher.
BlockEncrypt(key, blk) ==
    [i \in 1..BlockSize |->
        ((blk[i] * 7) + (blk[(i % BlockSize) + 1] * 3) + key + i) % 256]

\* XOR of a data segment (at most one block) with the head of a keystream block
XorSeg(seg, ks) == [i \in 1..Len(seg) |-> Xor(seg[i], ks[i])]

\* the shift register after a segment: a full segment replaces it, a short
\* (final) segment is never followed by another one
NextReg(reg, cseg) == IF Len(cseg) = BlockSize THEN cseg ELSE reg

\* cipher.NewCFBEncrypter(block, iv).XORKeyStream(dst, src)
RECURSIVE CFBEncrypt(_, _, _)
CFBEncrypt(key, reg, src) ==
    IF Len(src) = 0 THEN <<>>
    ELSE LET n    == Min(BlockSize, Len(src))
             cseg == XorSeg(SubSeq(src, 1, n), BlockEncrypt(key, reg))
         IN  cseg \o CFBEncrypt(key, NextReg(reg, cseg), SubSeq(src, n + 1, Len(src)))

CFBDecryptChainsPlaintext(key, reg, src) ==
    LET RECURSIVE Go(_, _)
        Go(r, s) ==
            IF Len(s) = 0 THEN <<>>
            ELSE LET n    == Min(BlockSize, Len(s))
                     pseg == XorSeg(SubSeq(s, 1, n), BlockEncrypt(key, r))
                 IN  pseg \o Go(NextReg(r, pseg), SubSeq(s, n + 1, Len(s)))
    IN  Go(reg, src)

\* cipher.NewCFBDecrypter(block, iv).XORKeyStream(dst, src)
RECURSIVE CFBDecrypt(_, _, _)
CFBDecrypt(key, reg, src) ==
    IF Len(src) = 0 THEN <<>>
    ELSE LET n    == Min(BlockSize, Len(src))
             cseg == SubSeq(src, 1, n)
             pseg == XorSeg(cseg, BlockEncrypt(key, reg))
         IN  pseg \o CFBDecrypt(key, NextReg(reg, cseg), SubSeq(src, n + 1, Len(src)))

\* the values rand.Reader may deliver for an IV (a sample of the 2^128)
IVs == { [i \in 1..BlockSize |-> 0],
         [i \in 1..BlockSize |-> ((i * 29) + 5) % 256] }

EncryptFixedIV(key, iv, m) ==
    [i \in 1..BlockSize |-> 0] \o CFBEncrypt(key, [i \in 1..BlockSize |-> 0], m)

\* AESCipher.Encrypt with the IV that rand.Reader delivered
Encrypt(key, iv, m) == iv \o CFBEncrypt(key, iv, m)

DecryptRejectsOneBlock(key, block) ==
    IF Len(block) <= BlockSize
    THEN [ok |-> FALSE, data |-> <<>>]
    ELSE [ok |-> TRUE,
          data |-> CFBDecrypt(key, SubSeq(block, 1, BlockSize),
                              SubSeq(block, BlockSize + 1, Len(block)))]

\* AESCipher.Decrypt
Decrypt(key, block) ==
    IF Len(block) < BlockSize
    THEN [ok |-> FALSE, data |-> <<>>]
    ELSE [ok |-> TRUE,
          data |-> CFBDecrypt(key, SubSeq(block, 1, BlockSize),
                              SubSeq(block, BlockSize + 1, Len(block)))]

(***************************************************************************)
(* pkg/crypto: CryptoConn framing (raw transport)                          *)
(***************************************************************************)
\* the ceiling ReadEncrypted puts on a declared length: 1024*1024*10
MaxFrameLen == 10485760

\* the four big-endian header bytes WriteEncrypted builds from len(encrypted)
LenHeader(n) == << (n \div 16777216) % 256, (n \div 65536) % 256,
                   (n \div 256) % 256, n % 256 >>

HeaderLenLittleEndian(h) == (h[4] * 16777216) + (h[3] * 65536) + (h[2] * 256) + h[1]

\* the length ReadEncrypted rebuilds from the header bytes
HeaderLen(h) == (h[1] * 16777216) + (h[2] * 65536) + (h[3] * 256) + h[4]

InvalidLengthAllowsZero(length) == length < 0 \/ length > MaxFrameLen

\* the test ReadEncrypted applies to the decoded length
InvalidLength(length) == length <= 0 \/ length > MaxFrameLen

\* len(encrypted) for a plaintext of n bytes: make([]byte, aes.BlockSize+len(plaintext))
EncryptedLen(n) == BlockSize + n

\* Decrypt by byte counts: the error for a block shorter than the IV, else
\* make([]byte, len(ciphertext)) after the IV is cut off
DecryptLen(blockLen) ==
    IF blockLen < BlockSize THEN [ok |-> FALSE, n |-> 0]
    ELSE [ok |-> TRUE, n |-> blockLen - BlockSize]

\* CryptoConn.WriteEncrypted: the bytes its two Writes put on the stream
RawWire(key, iv, data) ==
    LenHeader(Len(Encrypt(key, iv, data))) \o Encrypt(key, iv, data)

\* CryptoConn.ReadEncrypted on the bytes available in the stream; eof says
\* the peer has closed, so no further byte will arrive.
\* st: "ok" (data returned), "err" (error returned), "wait" (blocked)
RawRead(key, stream, eof) ==
    IF Len(stream) < 4
    THEN [st |-> IF eof THEN "err" ELSE "wait", data |-> <<>>, rest |-> <<>>]
    ELSE LET length == HeaderLen(SubSeq(stream, 1, 4))
             body   == SubSeq(stream, 5, Len(stream))
         IN  IF InvalidLength(length)
             THEN [st |-> "err", data |-> <<>>, rest |-> body]
             ELSE IF Len(body) < length
             THEN [st |-> IF eof THEN "err" ELSE "wait", data |-> <<>>, rest |-> <<>>]
             ELSE LET d == Decrypt(key, SubSeq(body, 1, length))
                  IN  [st |-> IF d.ok THEN "ok" ELSE "err", data |-> d.data,
                       rest |-> SubSeq(body, length + 1, Len(body))]

(***************************************************************************)
(* pkg/transport: WSConn framing (text transport)                          *)
(***************************************************************************)
\* base64 symbols are their alphabet index 0..63; 64 is the padding '='
B64Pad == 64

\* base64.StdEncoding.EncodeToString
RECURSIVE B64Encode(_)
B64Encode(b) ==
    IF Len(b) = 0 THEN <<>>
    ELSE IF Len(b) = 1
    THEN << b[1] \div 4, (b[1] % 4) * 16, B64Pad, B64Pad >>
    ELSE IF Len(b) = 2
    THEN << b[1] \div 4, ((b[1] % 4) * 16) + (b[2] \div 16), (b[2] % 16) * 4, B64Pad >>
    ELSE << b[1] \div 4, ((b[1] % 4) * 16) + (b[2] \div 16),
            ((b[2] % 16) * 4) + (b[3] \div 64), b[3] % 64 >>
         \o B64Encode(SubSeq(b, 4, Len(b)))

\* base64.StdEncoding.DecodeString
RECURSIVE B64Decode(_)
B64Decode(t) ==
    IF Len(t) = 0 THEN [ok |-> TRUE, data |-> <<>>]
    ELSE IF Len(t) < 4 THEN [ok |-> FALSE, data |-> <<>>]
    ELSE LET q == SubSeq(t, 1, 4)
             last == Len(t) = 4
             b1 == (q[1] * 4) + (q[2] \div 16)
             b2 == ((q[2] % 16) * 16) + (q[3] \div 4)
             b3 == ((q[3] % 4) * 64) + q[4]
         IN  IF q[1] = B64Pad \/ q[2] = B64Pad THEN [ok |-> FALSE, data |-> <<>>]
             ELSE IF q[3] = B64Pad
             THEN IF last /\ q[4] = B64Pad THEN [ok |-> TRUE, data |-> <<b1>>]
                  ELSE [ok |-> FALSE, data |-> <<>>]
             ELSE IF q[4] = B64Pad
             THEN IF last THEN [ok |-> TRUE, data |-> <<b1, b2>>]
                  ELSE [ok |-> FALSE, data |-> <<>>]
             ELSE LET r == B64Decode(SubSeq(t, 5, Len(t)))
                  IN  [ok |-> r.ok, data |-> IF r.ok THEN <<b1, b2, b3>> \o r.data ELSE <<>>]

\* WSConn.WriteEncrypted: the text message it sends
WSWire(key, iv, data) == B64Encode(Encrypt(key, iv, data))

\* WSConn.ReadEncrypted on the messages queued; eof says the peer has closed
WSRead(key, msgs, eof) ==
    IF Len(msgs) = 0
    THEN [st |-> IF eof THEN "err" ELSE "wait", data |-> <<>>, rest |-> <<>>]
    ELSE LET e == B64Decode(Head(msgs))
             d == Decrypt(key, e.data)
         IN  [st |-> IF e.ok /\ d.ok THEN "ok" ELSE "err",
              data |-> IF e.ok THEN d.data ELSE <<>>, rest |-> Tail(msgs)]

(***************************************************************************)
(* pkg/acl: ACL                                                            *)
(***************************************************************************)
RECURSIVE Pow2(_)
Pow2(n) == IF n = 0 THEN 1 ELSE 2 * Pow2(n - 1)

IPAddrs == 0..(Pow2(IPBits) - 1)
PrefixLens == 0..IPBits

\* net.ParseIP failed / extractIP returned nil
NilIP == -1

ModeWhitelist == "whitelist"
ModeBlacklist == "blacklist"
\* the mode strings a configuration may carry; "" stands for any other value
Modes == {ModeWhitelist, ModeBlacklist, ""}

\* Entry strings after strings.TrimSpace, by what the parsers make of them:
\* blank, a valid IP, a valid CIDR (host bits may be set), text without "/"
\* that is no IP, text with "/" that is no CIDR.
GoodItems == [k : {"ip"}, ip : IPAddrs, len : {IPBits}]
             \cup [k : {"cidr"}, ip : IPAddrs, len : PrefixLens]
BadItems == { [k |-> "badip", ip |-> 0, len |-> 0],
              [k |-> "badcidr", ip |-> 0, len |-> 0] }
BlankItem == [k |-> "blank", ip |-> 0, len |-> 0]
Items == GoodItems \cup BadItems \cup {BlankItem}

\* strings.Contains(item, "/")
HasSlash(item) == item.k \in {"cidr", "badcidr"}

\* net.IPNet.Mask applied to an address: clear the host bits
MaskIP(ip, len) == (ip \div Pow2(IPBits - len)) * Pow2(IPBits - len)

\* net.ParseCIDR: the network has its host bits cleared
ParseCIDR(item) ==
    IF item.k = "cidr"
    THEN [err |-> FALSE, net |-> [base |-> MaskIP(item.ip, item.len), len |-> item.len]]
    ELSE [err |-> TRUE, net |-> [base |-> 0, len |-> 0]]

\* net.ParseIP
ParseIP(item) == IF item.k = "ip" THEN item.ip ELSE NilIP

\* net.IPNet.Contains
Contains(ipNet, ip) == MaskIP(ip, ipNet.len) = ipNet.base

\* Peer address strings handed to IsAllowed: a bare host, or host:port.
\* The host is an IP literal or a name ParseIP rejects.
Hosts == [k : {"ip"}, ip : IPAddrs] \cup {[k |-> "name", ip |-> 0]}
Addrs == [host : Hosts, port : BOOLEAN] \cup {[host |-> [k |-> "none", ip |-> 0], port |-> FALSE]}

ParseHost(h) == IF h.k = "ip" THEN h.ip ELSE NilIP

extractIPUnspecifiedOnFailure(addr) ==
    IF addr.host.k = "ip" THEN addr.host.ip ELSE 0

\* extractIP
extractIP(addr) ==
    IF ~addr.port /\ ParseHost(addr.host) # NilIP
    THEN ParseHost(addr.host)
    ELSE IF ~addr.port
         THEN NilIP               \* net.SplitHostPort: missing port
         ELSE ParseHost(addr.host)

RemoveAt(s, i) == SubSeq(s, 1, i - 1) \o SubSeq(s, i + 1, Len(s))

\* index at which a range loop with an early exit stops: the least of the
\* indices whose element passes the loop's test, 0 if none does
FirstIndex(hits) ==
    IF hits = {} THEN 0 ELSE CHOOSE i \in hits : \A j \in hits : i <= j

\* ACL.addToWhitelist
addToWhitelist(a, item) ==
    IF item.k = "blank" THEN [err |-> FALSE, acl |-> a]
    ELSE IF HasSlash(item)
         THEN IF ParseCIDR(item).err THEN [err |-> TRUE, acl |-> a]
              ELSE [err |-> FALSE,
                    acl |-> [a EXCEPT !.whitelist = Append(@, ParseCIDR(item).net)]]
         ELSE IF ParseIP(item) = NilIP THEN [err |-> TRUE, acl |-> a]
              ELSE [err |-> FALSE,
                    acl |-> [a EXCEPT !.whiteIPs = Append(@, ParseIP(item))]]

\* ACL.addToBlacklist
addToBlacklist(a, item) ==
    IF item.k = "blank" THEN [err |-> FALSE, acl |-> a]
    ELSE IF HasSlash(item)
         THEN IF ParseCIDR(item).err THEN [err |-> TRUE, acl |-> a]
              ELSE [err |-> FALSE,
                    acl |-> [a EXCEPT !.blacklist = Append(@, ParseCIDR(item).net)]]
         ELSE IF ParseIP(item) = NilIP THEN [err |-> TRUE, acl |-> a]
              ELSE [err |-> FALSE,
                    acl |-> [a EXCEPT !.blackIPs = Append(@, ParseIP(item))]]

\* the "for _, item := range cfg.Whitelist" loop of New
RECURSIVE AddAllWhite(_, _)
AddAllWhite(r, items) ==
    IF r.err \/ Len(items) = 0 THEN r
    ELSE AddAllWhite(addToWhitelist(r.acl, Head(items)), Tail(items))

\* the "for _, item := range cfg.Blacklist" loop of New
RECURSIVE AddAllBlack(_, _)
AddAllBlack(r, items) ==
    IF r.err \/ Len(items) = 0 THEN r
    ELSE AddAllBlack(addToBlacklist(r.acl, Head(items)), Tail(items))

NewStoresWhenDisabled(cfg) ==
    AddAllBlack(AddAllWhite([err |-> FALSE,
                             acl |-> [enabled |-> cfg.Enable, mode |-> cfg.Mode,
                                      whitelist |-> <<>>, blacklist |-> <<>>,
                                      whiteIPs |-> <<>>, blackIPs |-> <<>>]],
                            cfg.Whitelist),
                cfg.Blacklist)

\* acl.New
New(cfg) ==
    LET a0 == [enabled |-> cfg.Enable, mode |-> cfg.Mode,
               whitelist |-> <<>>, blacklist |-> <<>>,
               whiteIPs |-> <<>>, blackIPs |-> <<>>]
    IN  IF ~cfg.Enable THEN [err |-> FALSE, acl |-> a0]
        ELSE AddAllBlack(AddAllWhite([err |-> FALSE, acl |-> a0], cfg.Whitelist),
                         cfg.Blacklist)

isInWhitelistIPsOnly(a, ip) == \E i \in 1..Len(a.whiteIPs) : a.whiteIPs[i] = ip

\* ACL.isInWhitelist
isInWhitelist(a, ip) ==
    \/ FirstIndex({k \in 1..Len(a.whiteIPs) : a.whiteIPs[k] = ip}) # 0
    \/ FirstIndex({k \in 1..Len(a.whitelist) : Contains(a.whitelist[k], ip)}) # 0

isInBlacklistIPsOnly(a, ip) == \E i \in 1..Len(a.blackIPs) : a.blackIPs[i] = ip

\* ACL.isInBlacklist
isInBlacklist(a, ip) ==
    \/ FirstIndex({k \in 1..Len(a.blackIPs) : a.blackIPs[k] = ip}) # 0
    \/ FirstIndex({k \in 1..Len(a.blacklist) : Contains(a.blacklist[k], ip)}) # 0

IsAllowedIgnoresEnabled(a, addr) ==
    IF extractIP(addr) = NilIP THEN FALSE
    ELSE IF a.mode = ModeWhitelist THEN isInWhitelist(a, extractIP(addr))
    ELSE IF a.mode = ModeBlacklist THEN ~isInBlacklist(a, extractIP(addr))
    ELSE TRUE

IsAllowedUnknownModeDenies(a, addr) ==
    IF ~a.enabled THEN TRUE
    ELSE IF extractIP(addr) = NilIP THEN FALSE
    ELSE IF a.mode = ModeWhitelist THEN isInWhitelist(a, extractIP(addr))
    ELSE IF a.mode = ModeBlacklist THEN ~isInBlacklist(a, extractIP(addr))
    ELSE FALSE

IsAllowedDenyListWins(a, addr) ==
    IF ~a.enabled THEN TRUE
    ELSE IF extractIP(addr) = NilIP THEN FALSE
    ELSE IF a.mode = ModeWhitelist
    THEN isInWhitelist(a, extractIP(addr)) /\ ~isInBlacklist(a, extractIP(addr))
    ELSE IF a.mode = ModeBlacklist THEN ~isInBlacklist(a, extractIP(addr))
    ELSE TRUE

\* ACL.IsAllowed
IsAllowed(a, addr) ==
    IF ~a.enabled THEN TRUE
    ELSE IF extractIP(addr) = NilIP THEN FALSE
    ELSE IF a.mode = ModeWhitelist THEN isInWhitelist(a, extractIP(addr))
    ELSE IF a.mode = ModeBlacklist THEN ~isInBlacklist(a, extractIP(addr))
    ELSE TRUE

RemoveWhitelistOpAll(a, item) ==
    IF HasSlash(item)
    THEN IF ParseCIDR(item).err THEN a
         ELSE [a EXCEPT !.whitelist =
                  SelectSeq(@, LAMBDA n : n # ParseCIDR(item).net)]
    ELSE IF ParseIP(item) = NilIP THEN a
         ELSE [a EXCEPT !.whiteIPs = SelectSeq(@, LAMBDA x : x # ParseIP(item))]

\* ACL.RemoveWhitelist
RemoveWhitelistOp(a, item) ==
    IF HasSlash(item)
    THEN IF ParseCIDR(item).err THEN a
         ELSE LET i == FirstIndex({k \in 1..Len(a.whitelist) : a.whitelist[k] = ParseCIDR(item).net})
              IN  IF i = 0 THEN a ELSE [a EXCEPT !.whitelist = RemoveAt(@, i)]
    ELSE IF ParseIP(item) = NilIP THEN a
         ELSE LET i == FirstIndex({k \in 1..Len(a.whiteIPs) : a.whiteIPs[k] = ParseIP(item)})
              IN  IF i = 0 THEN a ELSE [a EXCEPT !.whiteIPs = RemoveAt(@, i)]

\* ACL.RemoveBlacklist
RemoveBlacklistOp(a, item) ==
    IF HasSlash(item)
    THEN IF ParseCIDR(item).err THEN a
         ELSE LET i == FirstIndex({k \in 1..Len(a.blacklist) : a.blacklist[k] = ParseCIDR(item).net})
              IN  IF i = 0 THEN a ELSE [a EXCEPT !.blacklist = RemoveAt(@, i)]
    ELSE IF ParseIP(item) = NilIP THEN a
         ELSE LET i == FirstIndex({k \in 1..Len(a.blackIPs) : a.blackIPs[k] = ParseIP(item)})
              IN  IF i = 0 THEN a ELSE [a EXCEPT !.blackIPs = RemoveAt(@, i)]

EntryCount(a) == Len(a.whitelist) + Len(a.blacklist) + Len(a.whiteIPs) + Len(a.blackIPs)

\* configurations the service is constructed from
CfgLists == {<<>>} \cup {<<it>> : it \in {[k |-> "ip", ip |-> 1, len |-> IPBits],
                                         [k |-> "cidr", ip |-> 3, len |-> 1]}}
AclConfigs == [Enable : BOOLEAN, Mode : Modes, Whitelist : CfgLists, Blacklist : CfgLists]

InitACL ==
    /\ \E cfg \in AclConfigs : ~New(cfg).err /\ acl = New(cfg).acl
    /\ aclOp = "New"

AddWhitelist ==
    /\ EntryCount(acl) < MaxEntries
    /\ \E item \in Items : acl' = addToWhitelist(acl, item).acl
    /\ aclOp' = "AddWhitelist"
    /\ UNCHANGED notAclVars

AddBlacklist ==
    /\ EntryCount(acl) < MaxEntries
    /\ \E item \in Items : acl' = addToBlacklist(acl, item).acl
    /\ aclOp' = "AddBlacklist"
    /\ UNCHANGED notAclVars

RemoveWhitelist ==
    /\ \E item \in Items : acl' = RemoveWhitelistOp(acl, item)
    /\ aclOp' = "RemoveWhitelist"
    /\ UNCHANGED notAclVars

RemoveBlacklist ==
    /\ \E item \in Items : acl' = RemoveBlacklistOp(acl, item)
    /\ aclOp' = "RemoveBlacklist"
    /\ UNCHANGED notAclVars

SetMode ==
    /\ \E m \in Modes : acl' = [acl EXCEPT !.mode = m]
    /\ aclOp' = "SetMode"
    /\ UNCHANGED notAclVars

SetEnabled ==
    /\ \E b \in BOOLEAN : acl' = [acl EXCEPT !.enabled = b]
    /\ aclOp' = "SetEnabled"
    /\ UNCHANGED notAclVars


(***************************************************************************)
(* Server front-ends: startTCP accept loop, startWebSocket handler chain   *)
(***************************************************************************)
\* WSConfig.Path, and a request path that differs from it
ConfigPath == "/ws"
Paths == {ConfigPath, "/"}

\* Values of the X-Forwarded-For header: the comma-separated elements, <<>>
\* when the header is absent or empty.  X-Real-IP: <<>> or one value.
HdrAddrs == {[host |-> [k |-> "ip", ip |-> 1], port |-> FALSE],
             [host |-> [k |-> "name", ip |-> 0], port |-> FALSE]}
XffValues == {<<>>} \cup {<<h>> : h \in HdrAddrs}
XriValues == {<<>>, <<[host |-> [k |-> "ip", ip |-> 2], port |-> FALSE]>>}

\* net.Conn.RemoteAddr().String() of an accepted connection: always ip:port
PeerAddrs == {a \in Addrs : a.host.k = "ip" /\ a.port}

Requests == [peer : PeerAddrs, xff : XffValues, xri : XriValues,
             path : Paths, wsreq : BOOLEAN]

\* getClientIP
getClientIP(r) ==
    IF r.xff # <<>> THEN Head(r.xff)
    ELSE IF r.xri # <<>> THEN Head(r.xri)
    ELSE IF ~r.peer.port THEN r.peer      \* net.SplitHostPort failed
    ELSE [host |-> r.peer.host, port |-> FALSE]

\* WSServer.serveFakePage
serveFakePage == "fakepage"

\* WSServer.ServeHTTP up to the call of the handler; the upgrader rejects a
\* request that is not a well-formed WebSocket upgrade
ServeHTTP(r) ==
    IF r.path # ConfigPath THEN serveFakePage
    ELSE IF ~r.wsreq THEN "upgradefail"
    ELSE "handshake"

\* the wrappedHandler closure of Server.startWebSocket
wrappedHandler(a, r) ==
    IF ~IsAllowed(a, getClientIP(r)) THEN "forbidden"
    ELSE ServeHTTP(r)

startTCPAdmitAll(a, peer) == TRUE

\* the ACL check of the accept loop in Server.startTCP
startTCPAdmit(a, peer) == IsAllowed(a, peer)

NoRequest == [xff |-> <<>>, xri |-> <<>>, path |-> ConfigPath, wsreq |-> FALSE]

\* A connection: its peer, the request it carries (text mode), where the
\* server is with it, whether the policy permitted the peer address when the
\* server decided ("none" before), and what the server did on it.
NewConn(peer, req) ==
    [peer |-> peer, req |-> req, st |-> "pending", verdict |-> "none",
     task |-> FALSE, rd |-> 0, wr |-> 0, dialed |-> FALSE]

Verdict(a, peer) == IF IsAllowed(a, peer) THEN "allow" ELSE "deny"

\* the policies a server is constructed with
FrontAclConfigs ==
    [Enable : BOOLEAN, Mode : {ModeWhitelist, ModeBlacklist},
     Whitelist : {<<[k |-> "cidr", ip |-> 0, len |-> 1]>>},
     Blacklist : {<<[k |-> "ip", ip |-> 2, len |-> IPBits]>>}]

InitFront ==
    /\ \E cfg \in FrontAclConfigs : acl = New(cfg).acl
    /\ aclOp = "New"
    /\ srvMode \in {"tcp", "ws"}
    /\ ln = "open"
    /\ conns = <<>>

\* ln.Accept() returns a connection
Accept ==
    /\ srvMode = "tcp" /\ ln = "open"
    /\ Len(conns) < MaxConns
    /\ \A i \in 1..Len(conns) : conns[i].st # "pending"
    /\ \E peer \in PeerAddrs : conns' = Append(conns, NewConn(peer, NoRequest))
    /\ UNCHANGED <<srvMode, ln, aclVars, notFrontVars>>

\* the rest of the loop body: ACL check, then Close or "go handleTCPConnection"
Admit(i) ==
    /\ srvMode = "tcp" /\ conns[i].st = "pending"
    /\ LET c == conns[i]
       IN  conns' = [conns EXCEPT ![i] =
              IF startTCPAdmit(acl, c.peer)
              THEN [c EXCEPT !.st = "handshake", !.task = TRUE,
                             !.verdict = Verdict(acl, c.peer)]
              ELSE [c EXCEPT !.st = "rejected", !.verdict = Verdict(acl, c.peer)]]
    /\ UNCHANGED <<srvMode, ln, aclVars, notFrontVars>>

\* http.Server accepts a connection and reads a request from it
HttpArrive ==
    /\ srvMode = "ws" /\ ln = "open"
    /\ Len(conns) < MaxRequests
    /\ \E r \in Requests :
          conns' = Append(conns, NewConn(r.peer,
                      [xff |-> r.xff, xri |-> r.xri, path |-> r.path, wsreq |-> r.wsreq]))
    /\ UNCHANGED <<srvMode, ln, aclVars, notFrontVars>>

AsRequest(c) == [peer |-> c.peer, xff |-> c.req.xff, xri |-> c.req.xri,
                 path |-> c.req.path, wsreq |-> c.req.wsreq]

\* the request's goroutine runs wrappedHandler; on "handshake" the upgrade
\* has happened and handleWSConnection runs in that goroutine
ServeRequest(i) ==
    /\ srvMode = "ws" /\ conns[i].st = "pending"
    /\ LET c == conns[i]
           out == wrappedHandler(acl, AsRequest(c))
       IN  conns' = [conns EXCEPT ![i] =
              [c EXCEPT !.st = out, !.task = (out = "handshake"),
                        !.verdict = Verdict(acl, c.peer)]]
    /\ UNCHANGED <<srvMode, ln, aclVars, notFrontVars>>

HandlerReadFatal(i) ==
    /\ conns[i].st = "handshake"
    /\ \E ok \in BOOLEAN :
          conns' = [k \in 1..Len(conns) |->
              IF k = i
              THEN [conns[k] EXCEPT !.rd = @ + 1, !.st = IF ok THEN "dialing" ELSE "done"]
              ELSE IF ok THEN conns[k] ELSE [conns[k] EXCEPT !.st = "done"]]
    /\ UNCHANGED <<srvMode, ln, aclVars, notFrontVars>>

\* handle*Connection: ReadEncrypted of the address frame (or its failure)
HandlerRead(i) ==
    /\ conns[i].st = "handshake"
    /\ \E ok \in BOOLEAN :
          conns' = [conns EXCEPT ![i] =
              [@ EXCEPT !.rd = @ + 1, !.st = IF ok THEN "dialing" ELSE "done"]]
    /\ UNCHANGED <<srvMode, ln, aclVars, notFrontVars>>

\* handle*Connection: net.DialTimeout to the resolved target
HandlerDial(i) ==
    /\ conns[i].st = "dialing"
    /\ \E ok \in BOOLEAN :
          conns' = [conns EXCEPT ![i] =
              [@ EXCEPT !.dialed = TRUE, !.st = IF ok THEN "respondok" ELSE "responderr"]]
    /\ UNCHANGED <<srvMode, ln, aclVars, notFrontVars>>

\* handle*Connection: WriteEncrypted of the response
HandlerRespond(i) ==
    /\ conns[i].st \in {"respondok", "responderr"}
    /\ conns' = [conns EXCEPT ![i] =
          [@ EXCEPT !.wr = @ + 1, !.st = IF @ = "respondok" THEN "bridge" ELSE "done"]]
    /\ UNCHANGED <<srvMode, ln, aclVars, notFrontVars>>

\* both forwarding loops have returned; the deferred Close runs
HandlerFinish(i) ==
    /\ conns[i].st = "bridge"
    /\ conns' = [conns EXCEPT ![i] = [@ EXCEPT !.st = "done"]]
    /\ UNCHANGED <<srvMode, ln, aclVars, notFrontVars>>

(***************************************************************************)
(* One tunnel session: Client.handleConnection against Server.handle*      *)
(***************************************************************************)
\* "OK", "ERROR:" and "USE_DEFAULT" as bytes
OK == <<79, 75>>
ERRORBeginsWithOK == OK \o <<58>>
ERROR == <<69, 82, 82, 79, 82, 58>>
USE_DEFAULT == <<85, 83, 69, 95, 68, 69, 70, 65, 85, 76, 84>>

\* Server.config.TargetAddr ("d:9") and an address a client names ("a:1")
DefaultTarget == <<100, 58, 57>>
NamedTarget == <<97, 58, 49>>
\* err.Error() of a failed dial ("refused")
DialErrorText == <<114, 101, 102, 117, 115, 101, 100>>

\* strings.HasPrefix
HasPrefix(s, prefix) == IsPrefix(prefix, s)

\* the bytes the local peer and the target have to send, all distinct
OwnerData == [i \in 1..MaxOwnerBytes |-> 10 + i]
TargetData == [i \in 1..MaxTargetBytes |-> 200 + i]

\* What Client.handleConnection hands to the transport handler: direct mode
\* with no configured target, direct mode with a configured target that is
\* the sentinel followed by a blank, direct mode or CONNECT with a named
\* target, and a plain proxied request whose bytes are the initial data.
ClientJobs == { [targetAddr |-> USE_DEFAULT, initialData |-> <<>>],
                [targetAddr |-> USE_DEFAULT \o <<32>>, initialData |-> <<>>],
                [targetAddr |-> NamedTarget, initialData |-> <<>>],
                [targetAddr |-> NamedTarget, initialData |-> <<7>>] }

LoopIds == {"cliUp", "cliDown", "srvUp", "srvDown"}

\* A forwarding loop: pc is "off" (not started), "read", "write" or "done";
\* buf is its buffer, n the count of the last read; rd and wr are the bytes
\* it has read from its source and delivered to its destination so far;
\* end says why it returned: "eof", "rerr" or "werr".
\* capacity of the buffer of a loop that reads a plain socket: 32*1024
BufSize == 32768

\* The cells of that buffer the model keeps: the leading ones, as many as the
\* bounded streams can fill and one more.  make() zeroes them.
BufCells == Min(BufSize, MaxOwnerBytes + MaxTargetBytes + 1)

LoopOff == [pc |-> "off", buf |-> [i \in 1..BufCells |-> 0], n |-> 0,
            rd |-> <<>>, wr |-> <<>>, end |-> "none"]

\* the wire form of one WriteEncrypted call on the session's transport
Wire(t, key, iv, data) ==
    IF t = "tcp" THEN RawWire(key, iv, data) ELSE <<WSWire(key, iv, data)>>

ReadEncryptedTextTrims(t, key, chan, eof) ==
    IF t = "tcp" THEN RawRead(key, chan, eof)
    ELSE [WSRead(key, chan, eof) EXCEPT !.data = SubSeq(@, 1, Len(@) - 1)]

\* one ReadEncrypted call on the session's transport
ReadEncrypted(t, key, chan, eof) ==
    IF t = "tcp" THEN RawRead(key, chan, eof) ELSE WSRead(key, chan, eof)

\* what the peer's ReadEncrypted makes of one frame as written
Decoded(t, key, wire) == ReadEncrypted(t, key, wire, TRUE).data

ChunkWholeBuffer(buf, n) == buf

\* buf[:n], the part of the buffer a loop hands on after Read returned n
Chunk(buf, n) == SubSeq(buf, 1, n)

\* Read(buf) storing d at the start of the buffer; the rest keeps older bytes
Fill(buf, d) == d \o SubSeq(buf, Len(d) + 1, Len(buf))

\* direct mode: handleHTTPSConnect is not called.  method and host are the
\* request the local peer sends first, ahead the bytes of its stream that
\* the request's bufio.Reader took beyond the request, reply the outcome of
\* the write of the CONNECT reply
NoProxy == [method |-> "none", host |-> <<>>, ahead |-> <<>>, reply |-> "none"]

InitSess ==
    /\ tr \in {"tcp", "ws"}
    /\ \E pw \in Passwords, job \in ClientJobs :
          cli = [pc |-> "dial", key |-> NewAESCipher(pw), targetAddr |-> job.targetAddr,
                 initialData |-> job.initialData, resp |-> "none", response |-> <<>>,
                 calls |-> <<>>, px |-> NoProxy]
    /\ srv = [pc |-> "idle", key |-> NewAESCipher("pw1"), payload |-> <<>>, addr |-> <<>>,
              dialed |-> <<>>, dialOk |-> FALSE, calls |-> <<>>]
    /\ loops = [l \in LoopIds |-> LoopOff]
    /\ owner = [in |-> <<>>, sent |-> 0, out |-> <<>>,
                peerClosed |-> FALSE, closed |-> FALSE]
    /\ tunnel = [open |-> FALSE, c2s |-> <<>>, s2c |-> <<>>,
                 cliClosed |-> FALSE, srvClosed |-> FALSE, broken |-> FALSE,
                 forged |-> 0]
    /\ target = [open |-> FALSE, in |-> <<>>, sent |-> 0, out |-> <<>>,
                 peerClosed |-> FALSE, closed |-> FALSE]

\* ---- the environment ----
\* the local peer writes its next byte
OwnerSend ==
    /\ ~owner.peerClosed /\ ~owner.closed /\ owner.sent < MaxOwnerBytes
    /\ owner' = [owner EXCEPT !.in = Append(@, OwnerData[owner.sent + 1]),
                              !.sent = @ + 1]
    /\ UNCHANGED <<tr, cli, srv, loops, tunnel, target, notSessVars>>

\* the local peer closes its connection
OwnerClose ==
    /\ ~owner.peerClosed
    /\ owner' = [owner EXCEPT !.peerClosed = TRUE]
    /\ UNCHANGED <<tr, cli, srv, loops, tunnel, target, notSessVars>>

\* the target writes its next byte
TargetSend ==
    /\ target.open /\ ~target.peerClosed /\ ~target.closed
    /\ target.sent < MaxTargetBytes
    /\ target' = [target EXCEPT !.in = Append(@, TargetData[target.sent + 1]),
                                !.sent = @ + 1]
    /\ UNCHANGED <<tr, cli, srv, loops, owner, tunnel, notSessVars>>

\* the target closes its connection
TargetClose ==
    /\ target.open /\ ~target.peerClosed
    /\ target' = [target EXCEPT !.peerClosed = TRUE]
    /\ UNCHANGED <<tr, cli, srv, loops, owner, tunnel, notSessVars>>

\* the network resets the tunnel connection: a transport error
TunnelBreak ==
    /\ tunnel.open /\ ~tunnel.broken
    /\ ~(tunnel.cliClosed /\ tunnel.srvClosed)
    /\ tunnel' = [tunnel EXCEPT !.broken = TRUE]
    /\ UNCHANGED <<tr, cli, srv, loops, owner, target, notSessVars>>

\* frames no WriteEncrypted produces: on the raw transport a header that
\* declares 0 bytes, one that declares more than the ceiling, and a frame of
\* one byte; on the text transport a message that is not base64 and the
\* base64 of one byte
ForgedFrames(t) ==
    IF t = "tcp"
    THEN {LenHeader(0), LenHeader(MaxFrameLen + 1), LenHeader(1) \o <<9>>}
    ELSE {<< <<1, 2, 3>> >>, << B64Encode(<<9>>) >>}

\* the far end of the tunnel, not running this program, sends such a frame
\* to the forwarding loop l while the relay is running
TunnelForge(l) ==
    /\ tunnel.open /\ ~tunnel.broken
    /\ tunnel.forged < MaxForged
    /\ loops[l].pc \in {"read", "write"}
    /\ \E f \in ForgedFrames(tr) :
          tunnel' = IF l = "cliDown"
                    THEN [tunnel EXCEPT !.s2c = @ \o f, !.forged = @ + 1]
                    ELSE [tunnel EXCEPT !.c2s = @ \o f, !.forged = @ + 1]
    /\ UNCHANGED <<tr, cli, srv, loops, owner, target, notSessVars>>

\* ---- connection semantics ----
\* outcomes of a write on a connection end: an error when the end is closed
\* or the connection broken; towards a peer that has closed, the write may
\* still return success (the bytes are discarded)
WriteOutcomes(localClosed, peerClosed, broken) ==
    IF localClosed \/ broken THEN {"err"}
    ELSE IF peerClosed THEN {"lost", "err"}
    ELSE {"ok"}

\* the initiator's deferred ownerConn.Close() and serverConn/wsConn.Close()
CliCloseAll ==
    /\ owner' = [owner EXCEPT !.closed = TRUE]
    /\ tunnel' = [tunnel EXCEPT !.cliClosed = tunnel.open]

\* ---- the initiator in proxy mode: Client.handleHTTPSConnect ----
\* "HTTP/1.1 200 Connection Established\r\n\r\n"
Reply200 == <<72, 84, 84, 80, 47, 49, 46, 49, 32, 50, 48, 48, 32,
              67, 111, 110, 110, 101, 99, 116, 105, 111, 110, 32,
              69, 115, 116, 97, 98, 108, 105, 115, 104, 101, 100, 13, 10, 13, 10>>

\* the first request of a local peer: CONNECT or another method, for the
\* host "a:1" or "a", or bytes http.ReadRequest rejects
ProxyRequests ==
    [method : {"CONNECT", "GET"}, host : {NamedTarget, <<97>>}]
    \cup {[method |-> "bad", host |-> <<>>]}

\* strings.Contains(targetAddr, ":")
HasColon(a) == \E i \in 1..Len(a) : a[i] = 58

\* req.Host with ":443" or ":80" appended when it names no port
ProxyTarget(method, host) ==
    IF HasColon(host) THEN host
    ELSE IF method = "CONNECT" THEN host \o <<58, 52, 52, 51>>
    ELSE host \o <<58, 56, 48>>

\* req.Write(&buf): the request as serialised again, standing for its
\* request line and headers
RequestBytes(host) == <<71, 32>> \o host

InitialDataWithBuffered(method, host, ahead) ==
    (IF method = "CONNECT" THEN <<>> ELSE RequestBytes(host)) \o ahead

\* the initial data handleHTTPSConnect returns: nil for CONNECT, the
\* re-serialised request otherwise; the reader's buffer is not consulted
InitialData(method, host, ahead) ==
    IF method = "CONNECT" THEN <<>> ELSE RequestBytes(host)

AfterRequestSkipsReply(method) == "dial"

\* the branch on req.Method: CONNECT answers the local peer first
AfterRequest(method) == IF method = "CONNECT" THEN "reply" ELSE "dial"

InitProxy ==
    /\ tr \in {"tcp", "ws"}
    /\ \E req \in ProxyRequests :
          cli = [pc |-> "request", key |-> NewAESCipher("pw1"), targetAddr |-> <<>>,
                 initialData |-> <<>>, resp |-> "none", response |-> <<>>, calls |-> <<>>,
                 px |-> [NoProxy EXCEPT !.method = req.method, !.host = req.host]]
    /\ srv = [pc |-> "idle", key |-> NewAESCipher("pw1"), payload |-> <<>>, addr |-> <<>>,
              dialed |-> <<>>, dialOk |-> FALSE, calls |-> <<>>]
    /\ loops = [l \in LoopIds |-> LoopOff]
    /\ owner = [in |-> <<>>, sent |-> 0, out |-> <<>>,
                peerClosed |-> FALSE, closed |-> FALSE]
    /\ tunnel = [open |-> FALSE, c2s |-> <<>>, s2c |-> <<>>,
                 cliClosed |-> FALSE, srvClosed |-> FALSE, broken |-> FALSE,
                 forged |-> 0]
    /\ target = [open |-> FALSE, in |-> <<>>, sent |-> 0, out |-> <<>>,
                 peerClosed |-> FALSE, closed |-> FALSE]

\* http.ReadRequest(bufio.NewReader(conn)): the reader fills its buffer with
\* what the connection holds, the request and any number of the bytes behind
\* it; the request is parsed; the reader is dropped when the function returns
CliReadRequest ==
    /\ cli.pc = "request"
    /\ IF cli.px.method = "bad"
       THEN /\ cli' = [cli EXCEPT !.pc = "closed"]
            /\ owner' = [owner EXCEPT !.closed = TRUE]
       ELSE \E k \in 0..Len(owner.in) :
              LET ahead == SubSeq(owner.in, 1, k)
              IN  /\ cli' = [cli EXCEPT
                          !.pc = AfterRequest(cli.px.method),
                          !.px.ahead = ahead,
                          !.targetAddr = ProxyTarget(cli.px.method, cli.px.host),
                          !.initialData = InitialData(cli.px.method, cli.px.host, ahead)]
                  /\ owner' = [owner EXCEPT !.in = SubSeq(@, k + 1, Len(@))]
    /\ UNCHANGED <<tr, srv, loops, tunnel, target, notSessVars>>

\* conn.Write of the 200 reply; on an error handleConnection returns
CliReply200 ==
    /\ cli.pc = "reply"
    /\ \E out \in WriteOutcomes(owner.closed, owner.peerClosed, FALSE) :
          /\ cli' = [cli EXCEPT !.px.reply = out,
                                !.pc = IF out = "err" THEN "closed" ELSE "dial"]
          /\ owner' = [owner EXCEPT !.out = IF out = "ok" THEN @ \o Reply200 ELSE @,
                                    !.closed = (out = "err")]
    /\ UNCHANGED <<tr, srv, loops, tunnel, target, notSessVars>>

\* ---- the initiator: Client.handleTCPConnection / handleWSConnection ----
\* net.DialTimeout / WSClient.Connect to the server
CliDial ==
    /\ cli.pc = "dial"
    /\ \E ok \in BOOLEAN :
          IF ok
          THEN /\ cli' = [cli EXCEPT !.pc = "sendaddr"]
               /\ tunnel' = [tunnel EXCEPT !.open = TRUE]
               /\ srv' = [srv EXCEPT !.pc = "readaddr"]
               /\ UNCHANGED owner
          ELSE /\ cli' = [cli EXCEPT !.pc = "closed"]
               /\ CliCloseAll
               /\ UNCHANGED srv
    /\ UNCHANGED <<tr, loops, target, notSessVars>>

\* a WriteEncrypted call of the initiator's handler with payload data;
\* next is where the handler goes when the call returns nil
CliWrite(data, next, startLoops) ==
    \E iv \in IVs, out \in WriteOutcomes(tunnel.cliClosed, tunnel.srvClosed, tunnel.broken) :
        /\ IF out = "ok"
           THEN tunnel' = [tunnel EXCEPT !.c2s = @ \o Wire(tr, cli.key, iv, data)]
           ELSE IF out = "lost" THEN tunnel' = tunnel
           ELSE tunnel' = [tunnel EXCEPT !.cliClosed = TRUE]
        /\ cli' = [cli EXCEPT !.calls = Append(@, data),
                              !.pc = IF out = "err" THEN "closed" ELSE next]
        /\ owner' = IF out = "err" THEN [owner EXCEPT !.closed = TRUE] ELSE owner
        /\ loops' = IF out # "err" /\ startLoops
                    THEN [loops EXCEPT !["cliUp"].pc = "read", !["cliDown"].pc = "read"]
                    ELSE loops

\* WriteEncrypted([]byte(targetAddr))
CliSendAddr ==
    /\ cli.pc = "sendaddr"
    /\ CliWrite(cli.targetAddr, "readresp", FALSE)
    /\ UNCHANGED <<tr, srv, target, notSessVars>>

CliAcceptsAnyResponse(response) == TRUE

\* the test the initiator applies to the response: strings.HasPrefix(response, "OK")
CliAccepts(response) == HasPrefix(response, OK)

CliAfterOKSkipsInitialData(initialData) == "bridge"

\* "if len(initialData) > 0": the handler's next step after an OK response
CliAfterOK(initialData) == IF Len(initialData) > 0 THEN "initdata" ELSE "bridge"

\* response, err := ReadEncrypted(); the HasPrefix test; and, without
\* initial data, the start of the two forwarding goroutines
CliReadResp ==
    /\ cli.pc = "readresp"
    /\ LET r == ReadEncrypted(tr, cli.key, tunnel.s2c, tunnel.srvClosed \/ tunnel.broken)
           st == IF tunnel.broken THEN "err" ELSE r.st
       IN  /\ st # "wait"
           /\ IF st = "ok" /\ CliAccepts(r.data)
              THEN /\ cli' = [cli EXCEPT !.resp = "ok", !.response = r.data,
                                         !.pc = CliAfterOK(cli.initialData)]
                   /\ tunnel' = [tunnel EXCEPT !.s2c = r.rest]
                   /\ loops' = IF CliAfterOK(cli.initialData) = "initdata" THEN loops
                               ELSE [loops EXCEPT !["cliUp"].pc = "read",
                                                  !["cliDown"].pc = "read"]
                   /\ UNCHANGED owner
              ELSE /\ cli' = [cli EXCEPT !.resp = IF st = "ok" THEN "rejected" ELSE "readerr",
                                         !.response = IF st = "ok" THEN r.data ELSE <<>>,
                                         !.pc = "closed"]
                   /\ owner' = [owner EXCEPT !.closed = TRUE]
                   /\ tunnel' = [tunnel EXCEPT !.cliClosed = TRUE,
                                               !.s2c = IF st = "ok" THEN r.rest ELSE @]
                   /\ UNCHANGED loops
    /\ UNCHANGED <<tr, srv, target, notSessVars>>

\* WriteEncrypted(initialData), then the start of the forwarding goroutines
CliInitData ==
    /\ cli.pc = "initdata"
    /\ CliWrite(cli.initialData, "bridge", TRUE)
    /\ UNCHANGED <<tr, srv, target, notSessVars>>

\* ---- the responder: Server.handleTCPConnection / handleWSConnection ----
ResolveByPrefix(payload) ==
    IF HasPrefix(payload, USE_DEFAULT) THEN DefaultTarget ELSE payload

\* the address the responder dials for a received address payload
Resolve(payload) == IF payload = USE_DEFAULT THEN DefaultTarget ELSE payload

\* targetData, err := ReadEncrypted(); the USE_DEFAULT substitution
SrvReadAddr ==
    /\ srv.pc = "readaddr"
    /\ LET r == ReadEncrypted(tr, srv.key, tunnel.c2s, tunnel.cliClosed \/ tunnel.broken)
           st == IF tunnel.broken THEN "err" ELSE r.st
       IN  /\ st # "wait"
           /\ IF st = "ok"
              THEN /\ srv' = [srv EXCEPT !.pc = "dial", !.payload = r.data,
                                         !.addr = Resolve(r.data)]
                   /\ tunnel' = [tunnel EXCEPT !.c2s = r.rest]
              ELSE /\ srv' = [srv EXCEPT !.pc = "closed"]
                   /\ tunnel' = [tunnel EXCEPT !.srvClosed = TRUE]
    /\ UNCHANGED <<tr, cli, loops, owner, target, notSessVars>>

SrvAfterDialAlwaysOK(ok) == "sendok"

\* the branch on the dial's error: the error response or the OK response
SrvAfterDial(ok) == IF ok THEN "sendok" ELSE "senderr"

\* net.DialTimeout("tcp", targetAddr, 10*time.Second)
SrvDial ==
    /\ srv.pc = "dial"
    /\ \E ok \in BOOLEAN :
          /\ srv' = [srv EXCEPT !.dialed = Append(@, srv.addr), !.dialOk = ok,
                                !.pc = SrvAfterDial(ok)]
          /\ target' = [target EXCEPT !.open = ok]
    /\ UNCHANGED <<tr, cli, loops, owner, tunnel, notSessVars>>

SrvErrorPayloadBare == DialErrorText

\* []byte("ERROR:" + err.Error())
SrvErrorPayload == ERROR \o DialErrorText

SrvAfterErrorFallsThrough == "sendok"

\* the "return" that follows the error response
SrvAfterError == "closed"

\* the dial failed: WriteEncrypted of the error response, return, Close
SrvSendErr ==
    /\ srv.pc = "senderr"
    /\ \E iv \in IVs, out \in WriteOutcomes(tunnel.srvClosed, tunnel.cliClosed, tunnel.broken) :
          LET afterWrite == [tunnel EXCEPT
                   !.s2c = IF out = "ok" THEN @ \o Wire(tr, srv.key, iv, SrvErrorPayload) ELSE @]
          IN  tunnel' = [afterWrite EXCEPT !.srvClosed = TRUE]
    /\ srv' = [srv EXCEPT !.calls = Append(@, SrvErrorPayload), !.pc = SrvAfterError]
    /\ UNCHANGED <<tr, cli, loops, owner, target, notSessVars>>

\* the dial succeeded: WriteEncrypted("OK"), then the forwarding goroutines
SrvSendOK ==
    /\ srv.pc = "sendok"
    /\ \E iv \in IVs, out \in WriteOutcomes(tunnel.srvClosed, tunnel.cliClosed, tunnel.broken) :
          IF out = "err"
          THEN /\ tunnel' = [tunnel EXCEPT !.srvClosed = TRUE]
               /\ target' = [target EXCEPT !.closed = TRUE]
               /\ srv' = [srv EXCEPT !.calls = Append(@, OK), !.pc = "closed"]
               /\ UNCHANGED loops
          ELSE /\ tunnel' = [tunnel EXCEPT
                       !.s2c = IF out = "ok" THEN @ \o Wire(tr, srv.key, iv, OK) ELSE @]
               /\ srv' = [srv EXCEPT !.calls = Append(@, OK), !.pc = "bridge"]
               /\ loops' = [loops EXCEPT !["srvUp"].pc = "read", !["srvDown"].pc = "read"]
               /\ UNCHANGED target
    /\ UNCHANGED <<tr, cli, owner, notSessVars>>

\* ---- the forwarding loops ----
DoneKeepsReading(l, why) == [loops EXCEPT ![l].end = why]

\* "return" from a forwarding loop
Done(l, why) == [loops EXCEPT ![l].pc = "done", ![l].end = why]

\* n, err := src.Read(buf) of forwardToServer (cliUp, from the local peer)
\* and forwardToClient / TCP->WS (srvUp, from the target)
PlainRead(l) ==
    /\ loops[l].pc = "read"
    /\ LET c == IF l = "cliUp" THEN owner ELSE target
       IN  \/ /\ c.closed
              /\ loops' = Done(l, "rerr")
              /\ UNCHANGED <<owner, target>>
           \/ /\ ~c.closed /\ c.in = <<>> /\ c.peerClosed
              /\ loops' = Done(l, "eof")
              /\ UNCHANGED <<owner, target>>
           \/ /\ ~c.closed /\ c.in # <<>>
              /\ \E n \in 1..Min(Len(c.in), Len(loops[l].buf)) :
                    /\ loops' = [loops EXCEPT ![l].pc = "write", ![l].n = n,
                                    ![l].buf = Fill(@, SubSeq(c.in, 1, n)),
                                    ![l].rd = @ \o SubSeq(c.in, 1, n)]
                    /\ IF l = "cliUp"
                       THEN /\ owner' = [owner EXCEPT !.in = SubSeq(@, n + 1, Len(@))]
                            /\ UNCHANGED target
                       ELSE /\ target' = [target EXCEPT !.in = SubSeq(@, n + 1, Len(@))]
                            /\ UNCHANGED owner
    /\ UNCHANGED <<tr, cli, srv, tunnel, notSessVars>>

\* dst.WriteEncrypted(buf[:n]) of forwardToServer and forwardToClient / TCP->WS
EncWrite(l) ==
    /\ loops[l].pc = "write"
    /\ LET key  == IF l = "cliUp" THEN cli.key ELSE srv.key
           mine == IF l = "cliUp" THEN tunnel.cliClosed ELSE tunnel.srvClosed
           peer == IF l = "cliUp" THEN tunnel.srvClosed ELSE tunnel.cliClosed
           data == Chunk(loops[l].buf, loops[l].n)
       IN  \E iv \in IVs, out \in WriteOutcomes(mine, peer, tunnel.broken) :
              /\ tunnel' = IF out # "ok" THEN tunnel
                           ELSE IF l = "cliUp"
                           THEN [tunnel EXCEPT !.c2s = @ \o Wire(tr, key, iv, data)]
                           ELSE [tunnel EXCEPT !.s2c = @ \o Wire(tr, key, iv, data)]
              /\ loops' = IF out = "err" THEN Done(l, "werr")
                          ELSE [loops EXCEPT ![l].pc = "read",
                                   ![l].wr = @ \o Decoded(tr, key, Wire(tr, key, iv, data))]
    /\ UNCHANGED <<tr, cli, srv, owner, target, notSessVars>>

\* data, err := src.ReadEncrypted() of forwardFromServer (cliDown) and
\* forwardFromClient / WS->TCP (srvDown)
EncRead(l) ==
    /\ loops[l].pc = "read"
    /\ LET key  == IF l = "cliDown" THEN cli.key ELSE srv.key
           chan == IF l = "cliDown" THEN tunnel.s2c ELSE tunnel.c2s
           mine == IF l = "cliDown" THEN tunnel.cliClosed ELSE tunnel.srvClosed
           peer == IF l = "cliDown" THEN tunnel.srvClosed ELSE tunnel.cliClosed
           r    == ReadEncrypted(tr, key, chan, peer)
           st   == IF mine \/ tunnel.broken THEN "err" ELSE r.st
       IN  /\ st # "wait"
           /\ IF st = "ok"
              THEN /\ loops' = [loops EXCEPT ![l].pc = "write", ![l].buf = r.data,
                                   ![l].n = Len(r.data), ![l].rd = @ \o r.data]
                   /\ tunnel' = IF l = "cliDown" THEN [tunnel EXCEPT !.s2c = r.rest]
                                ELSE [tunnel EXCEPT !.c2s = r.rest]
              ELSE /\ loops' = Done(l, IF ~mine /\ ~tunnel.broken /\ chan = <<>>
                                       THEN "eof" ELSE "rerr")
                   \* the bytes the failed call took from the stream are gone
                   /\ tunnel' = IF mine \/ tunnel.broken THEN tunnel
                                ELSE IF l = "cliDown" THEN [tunnel EXCEPT !.s2c = r.rest]
                                ELSE [tunnel EXCEPT !.c2s = r.rest]
    /\ UNCHANGED <<tr, cli, srv, owner, target, notSessVars>>

\* dst.Write(data) of forwardFromServer (to the local peer) and
\* forwardFromClient / WS->TCP (to the target)
PlainWrite(l) ==
    /\ loops[l].pc = "write"
    /\ LET c == IF l = "cliDown" THEN owner ELSE target
           data == loops[l].buf
       IN  \E out \in WriteOutcomes(c.closed, c.peerClosed, FALSE) :
              /\ loops' = IF out = "err" THEN Done(l, "werr")
                          ELSE [loops EXCEPT ![l].pc = "read", ![l].wr = @ \o data]
              /\ IF l = "cliDown"
                 THEN /\ owner' = IF out = "ok" THEN [owner EXCEPT !.out = @ \o data] ELSE owner
                      /\ UNCHANGED target
                 ELSE /\ target' = IF out = "ok" THEN [target EXCEPT !.out = @ \o data] ELSE target
                      /\ UNCHANGED owner
    /\ UNCHANGED <<tr, cli, srv, tunnel, notSessVars>>

WaitReturnsAfterOne(a, b) == a = "done" \/ b = "done"

\* wg.Add(2) ... wg.Wait(): Wait returns when both goroutines have run
\* their deferred wg.Done(), that is when both loops have returned
WaitReturns(a, b) == a = "done" /\ b = "done"

\* wg.Wait() returns in the initiator's handler; the deferred Closes run
CliJoin ==
    /\ cli.pc = "bridge"
    /\ WaitReturns(loops["cliUp"].pc, loops["cliDown"].pc)
    /\ cli' = [cli EXCEPT !.pc = "closed"]
    /\ CliCloseAll
    /\ UNCHANGED <<tr, srv, loops, target, notSessVars>>

\* wg.Wait() returns in the responder's handler; the deferred Closes run
SrvJoin ==
    /\ srv.pc = "bridge"
    /\ WaitReturns(loops["srvUp"].pc, loops["srvDown"].pc)
    /\ srv' = [srv EXCEPT !.pc = "closed"]
    /\ tunnel' = [tunnel EXCEPT !.srvClosed = TRUE]
    /\ target' = [target EXCEPT !.closed = TRUE]
    /\ UNCHANGED <<tr, cli, loops, owner, notSessVars>>

(***************************************************************************)
(* Codec exercise: Encrypt a message, Decrypt the result                   *)
(***************************************************************************)
MsgBytes == {0, 79, 255}

RECURSIVE SeqsUpTo(_, _)
SeqsUpTo(S, n) ==
    IF n = 0 THEN {<<>>}
    ELSE LET shorter == SeqsUpTo(S, n - 1)
         IN  shorter \cup {Append(s, x) : s \in {t \in shorter : Len(t) = n - 1}, x \in S}

LongMsg(n, c) == [i \in 1..n |-> ((i * 37) + c) % 256]

\* messages shorter than, equal to and longer than one and two cipher blocks
LongMsgs == {LongMsg(n, c) : n \in {BlockSize - 1, BlockSize, BlockSize + 1,
                                    2 * BlockSize, 2 * BlockSize + 1},
                             c \in {0, 201}}

CryptoMsgs == SeqsUpTo(MsgBytes, MaxMsgLen) \cup LongMsgs

NoResult == [ok |-> FALSE, data |-> <<>>]

(***************************************************************************)
(* CryptoConn over a byte stream: WriteEncrypted against ReadEncrypted     *)
(***************************************************************************)
\* payloads a writer hands to WriteEncrypted: empty, one byte, and one that
\* runs past a cipher block
PipeMsgs == {<<>>, <<7>>, LongMsg(BlockSize + 1, 5)}

\* the writer and the reader of one stream.  wpc: "idle" or "body" (between
\* the two Writes of WriteEncrypted, pend holding the encrypted block);
\* wire: the bytes written and not yet read; rpc: "hdr" or "body" (which
\* io.ReadFull the reader is in) or "err"; need and got: the size of the
\* buffer ReadFull fills and the bytes it holds so far; out: the payloads
\* ReadEncrypted has returned; short: some Read returned less than asked for.
InitPipe ==
    \E pw \in Passwords, ms \in {q \in SeqsUpTo(PipeMsgs, MaxFrames) : Len(q) > 0} :
        pipe = [key |-> NewAESCipher(pw), msgs |-> ms, sent |-> 0, wpc |-> "idle",
                pend |-> <<>>, wire |-> <<>>, rpc |-> "hdr", need |-> 4,
                got |-> <<>>, out |-> <<>>, short |-> FALSE]

\* WriteEncrypted up to and including c.Conn.Write(lenBuf)
PipeWriteHeader ==
    /\ pipe.wpc = "idle" /\ pipe.sent < Len(pipe.msgs)
    /\ \E iv \in IVs :
          LET encrypted == Encrypt(pipe.key, iv, pipe.msgs[pipe.sent + 1])
          IN  pipe' = [pipe EXCEPT !.wire = @ \o LenHeader(Len(encrypted)),
                                   !.pend = encrypted, !.wpc = "body"]
    /\ UNCHANGED <<lenx, notFrameVars>>

\* c.Conn.Write(encrypted), the end of WriteEncrypted
PipeWriteBody ==
    /\ pipe.wpc = "body"
    /\ pipe' = [pipe EXCEPT !.wire = @ \o pipe.pend, !.pend = <<>>,
                            !.sent = @ + 1, !.wpc = "idle"]
    /\ UNCHANGED <<lenx, notFrameVars>>

\* One Read inside the io.ReadFull calls of ReadEncrypted: the stream hands
\* over any number of the bytes it holds, up to what the buffer still lacks.
\* A full header buffer is decoded and tested; a full body buffer is handed
\* to Decrypt and the call returns.
PipeRead ==
    /\ pipe.rpc \in {"hdr", "body"}
    /\ Len(pipe.out) < Len(pipe.msgs)
    /\ pipe.wire # <<>>
    /\ \E n \in 1..Min(pipe.need - Len(pipe.got), Len(pipe.wire)) :
          LET got  == pipe.got \o SubSeq(pipe.wire, 1, n)
              rest == SubSeq(pipe.wire, n + 1, Len(pipe.wire))
              read == [pipe EXCEPT !.wire = rest, !.got = <<>>]
          IN  pipe' =
                IF Len(got) < pipe.need
                THEN [pipe EXCEPT !.wire = rest, !.got = got, !.short = TRUE]
                ELSE IF pipe.rpc = "hdr"
                THEN IF InvalidLength(HeaderLen(got))
                     THEN [read EXCEPT !.rpc = "err"]
                     ELSE [read EXCEPT !.rpc = "body", !.need = HeaderLen(got)]
                ELSE IF Decrypt(pipe.key, got).ok
                     THEN [read EXCEPT !.rpc = "hdr", !.need = 4,
                                       !.out = Append(@, Decrypt(pipe.key, got).data)]
                     ELSE [read EXCEPT !.rpc = "err"]
    /\ UNCHANGED <<lenx, notFrameVars>>

\* ---- one frame by byte counts ----
\* The byte counts of the payloads a session hands to WriteEncrypted on the
\* raw transport, by call site: the target address, the responder's answer,
\* a chunk a forwarding loop read into its 32 KiB buffer, and the initial
\* data, which is a whole proxied HTTP request (headers and body) as
\* http.Request.Write serialises it.
FramePayloads ==
    [kind : {"address"}, n : {Len(USE_DEFAULT), Len(NamedTarget)}]
    \cup [kind : {"response"}, n : {Len(OK), Len(SrvErrorPayload)}]
    \cup [kind : {"chunk"}, n : {1, BufSize}]
    \cup [kind : {"initdata"}, n : {1, MaxFrameLen - BlockSize, (MaxFrameLen - BlockSize) + 1}]
    \cup [kind : {"payload"}, n : {0, 1, MaxFrameLen - BlockSize}]

\* lengths a peer may declare in a header it writes itself, up to the
\* largest one whose first header byte has its top bit clear
PeerLengths == {0, 1, BlockSize - 1, BlockSize, MaxFrameLen, MaxFrameLen + 1,
                Pow2(24), Pow2(30) + (Pow2(30) - 1)}

\* how many bytes such a peer sends after the header
PeerBodies(length) ==
    {0, BlockSize} \cup (IF length <= MaxFrameLen THEN {length, length + 1} ELSE {})

\* src: who wrote the frame; n: the payload size handed to WriteEncrypted;
\* hdr, body: the header bytes and the count of bytes after them on the
\* stream; hdrn: how many of the header bytes arrive (4 unless the stream is
\* cut inside the header); eof: the stream ends after those; length: the decoded header;
\* alloc: size of the body buffer made (0: none); consumed: bytes taken from
\* the stream; res: what ReadEncrypted returned; got: size of the plaintext.
InitLenx ==
    lenx = [pc |-> "idle", src |-> "none", n |-> 0, hdr |-> <<0, 0, 0, 0>>,
            body |-> 0, eof |-> FALSE, length |-> 0, alloc |-> 0, hdrn |-> 4,
            consumed |-> 0, res |-> "none", got |-> 0]

\* WriteEncrypted of a session: header from len(encrypted), then the block
LenxWriteEncrypted ==
    /\ lenx.pc = "idle"
    /\ \E f \in FramePayloads, e \in BOOLEAN :
          lenx' = [lenx EXCEPT !.pc = "wire", !.src = f.kind, !.n = f.n,
                               !.hdr = LenHeader(EncryptedLen(f.n)),
                               !.body = EncryptedLen(f.n), !.eof = e]
    /\ UNCHANGED <<pipe, notFrameVars>>

\* a peer that does not use WriteEncrypted puts a header and bytes on the stream
LenxPeerWrites ==
    /\ lenx.pc = "idle"
    /\ \E l \in PeerLengths, e \in BOOLEAN :
          \E b \in PeerBodies(l) :
              lenx' = [lenx EXCEPT !.pc = "wire", !.src = "peer", !.hdr = LenHeader(l),
                                   !.body = b, !.eof = e]
    /\ UNCHANGED <<pipe, notFrameVars>>

\* a peer puts fewer than four bytes on the stream
LenxPeerCuts ==
    /\ lenx.pc = "idle"
    /\ \E k \in 0..3, e \in BOOLEAN :
          lenx' = [lenx EXCEPT !.pc = "wire", !.src = "peer", !.hdrn = k, !.eof = e]
    /\ UNCHANGED <<pipe, notFrameVars>>

ReadFullAcceptsShort(got, need) == IF got = 0 /\ need > 0 THEN "EOF" ELSE "ok"

\* the error of io.ReadFull on a buffer of need bytes when the stream ends
\* after got of them: EOF if it read nothing, ErrUnexpectedEOF if it read
\* some, nil if it filled the buffer
ReadFull(got, need) ==
    IF got >= need THEN "ok"
    ELSE IF got = 0 THEN "EOF" ELSE "unexpected EOF"

\* ReadEncrypted: io.ReadFull(lenBuf), the decoding, the test of the length
\* and make([]byte, length)
LenxReadHeader ==
    /\ lenx.pc = "wire"
    /\ lenx.hdrn >= 4 \/ lenx.eof
    /\ LET length == HeaderLen(lenx.hdr)
       IN  lenx' = IF ReadFull(lenx.hdrn, 4) # "ok"
                   THEN [lenx EXCEPT !.pc = "returned", !.consumed = lenx.hdrn,
                                     !.res = ReadFull(lenx.hdrn, 4)]
                   ELSE IF InvalidLength(length)
                   THEN [lenx EXCEPT !.pc = "returned", !.consumed = 4, !.length = length,
                                     !.res = "invalid data length"]
                   ELSE [lenx EXCEPT !.pc = "body", !.consumed = 4, !.length = length,
                                     !.alloc = length]
    /\ UNCHANGED <<pipe, notFrameVars>>

\* ReadEncrypted: io.ReadFull(encrypted) and Decrypt.  ReadFull returns when
\* the buffer is full or the stream has ended.
LenxReadBody ==
    /\ lenx.pc = "body"
    /\ lenx.body >= lenx.length \/ lenx.eof
    /\ lenx' = IF ReadFull(lenx.body, lenx.length) # "ok"
               THEN [lenx EXCEPT !.pc = "returned", !.consumed = @ + lenx.body,
                                 !.res = ReadFull(lenx.body, lenx.length)]
               ELSE [lenx EXCEPT !.pc = "returned", !.consumed = @ + lenx.length,
                        !.res = IF DecryptLen(lenx.length).ok THEN "ok"
                                ELSE "ciphertext too short",
                        !.got = DecryptLen(lenx.length).n]
    /\ UNCHANGED <<pipe, notFrameVars>>

(***************************************************************************)
(* Service start-up: server.New, then Server.Start                         *)
(***************************************************************************)
\* entries of a configured list: well-formed, blank, malformed
BootItems == { [k |-> "ip", ip |-> 1, len |-> IPBits],
               [k |-> "cidr", ip |-> 0, len |-> 1],
               BlankItem } \cup BadItems

BootLists == SeqsUpTo(BootItems, MaxCfgEntries)

\* Config.ACLConfig of the configurations main hands to server.New
BootConfigs == [Enable : BOOLEAN, Mode : {ModeWhitelist, ModeBlacklist},
                Whitelist : BootLists, Blacklist : BootLists]

\* the ACL of a server that does not exist yet
NoACL == New([Enable |-> FALSE, Mode |-> "", Whitelist |-> <<>>, Blacklist |-> <<>>]).acl

\* pc: "config" (New not yet called), "failed" (New returned an error and
\* main exited), "constructed", "listening", "listenfailed"
InitBoot ==
    /\ \E cfg \in BootConfigs : boot = [cfg |-> cfg, pc |-> "config"]
    /\ acl = NoACL
    /\ aclOp = "none"
    /\ srvMode \in {"tcp", "ws"}
    /\ ln = "closed"
    /\ conns = <<>>

\* server.New: NewAESCipher, then acl.New on Config.ACLConfig
ServerNew ==
    /\ boot.pc = "config"
    /\ IF New(boot.cfg).err
       THEN /\ boot' = [boot EXCEPT !.pc = "failed"]
            /\ UNCHANGED aclVars
       ELSE /\ boot' = [boot EXCEPT !.pc = "constructed"]
            /\ acl' = New(boot.cfg).acl
            /\ aclOp' = "New"
    /\ UNCHANGED <<frontVars, notBootVars>>

\* Server.Start: net.Listen of startTCP, ListenAndServe of startWebSocket
ServerStart ==
    /\ boot.pc = "constructed"
    /\ \E ok \in BOOLEAN :
          /\ boot' = [boot EXCEPT !.pc = IF ok THEN "listening" ELSE "listenfailed"]
          /\ ln' = IF ok THEN "open" ELSE ln
    /\ UNCHANGED <<srvMode, conns, aclVars, notBootVars>>

(***************************************************************************)
(* One CryptoConn written by several goroutines                            *)
(***************************************************************************)
\* w[t]: goroutine t's position in WriteEncrypted, "idle" or "body" (between
\* its two Writes), and the calls it has finished; wire: the Writes the
\* connection has taken, in order, each the header or the body of the n-th
\* call of goroutine w.  A single net.Conn Write is not split by another.
InitCW ==
    cw = [w |-> [t \in 1..MaxWriters |-> [pc |-> "idle", calls |-> 0]], wire |-> <<>>]

\* WriteEncrypted up to and including c.Conn.Write(lenBuf); the struct has
\* no lock and the method takes none
CWWriteHeader(t) ==
    /\ cw.w[t].pc = "idle" /\ cw.w[t].calls < MaxFrames
    /\ cw' = [cw EXCEPT !.w[t].pc = "body",
                        !.wire = Append(@, [w |-> t, n |-> cw.w[t].calls + 1, part |-> "hdr"])]
    /\ UNCHANGED <<notRestVars, callVars, rw, wsl, svcVars>>

\* c.Conn.Write(encrypted), the end of WriteEncrypted
CWWriteBody(t) ==
    /\ cw.w[t].pc = "body"
    /\ cw' = [cw EXCEPT !.w[t].pc = "idle", !.w[t].calls = @ + 1,
                        !.wire = Append(@, [w |-> t, n |-> cw.w[t].calls + 1, part |-> "body"])]
    /\ UNCHANGED <<notRestVars, callVars, rw, wsl, svcVars>>

(***************************************************************************)
(* One ACL used by several goroutines: IsAllowed against the mutators      *)
(***************************************************************************)
\* the goroutines: two in IsAllowed, one in a mutating method
Evaluators == {"eval1", "eval2"}
Mutators == {"mut"}

\* the peer addresses the evaluations are about
EvalAddrs == {[host |-> [k |-> "ip", ip |-> 1], port |-> TRUE],
              [host |-> [k |-> "name", ip |-> 0], port |-> FALSE]}

\* mu: the goroutines holding a.mu (readers by RLock, a writer by Lock);
\* t[g]: goroutine g's position in its method, the address it evaluates and
\* the result; reads: every read of a policy field made by IsAllowed, with
\* whether the reading goroutine held the read lock and whether a mutator
\* held the write lock at that moment.
InitRW ==
    /\ \E cfg \in FrontAclConfigs : acl = New(cfg).acl
    /\ aclOp = "New"
    /\ \E as \in [Evaluators -> EvalAddrs] :
          rw = [mu |-> {},
                t |-> [g \in Evaluators \cup Mutators |->
                         [pc |-> "start", res |-> "none",
                          addr |-> IF g \in Evaluators THEN as[g] ELSE CHOOSE a \in EvalAddrs : TRUE]],
                reads |-> {}]

\* sync.RWMutex: Lock waits for every holder, RLock for a writer
WriterIn(mu) == mu \cap Mutators # {}

ReadOf(field, g) == [field |-> field, locked |-> g \in rw.mu, during |-> WriterIn(rw.mu)]

\* IsAllowed: "if !a.enabled { return true }", then extractIP and its nil test
EvalReadEnabled(g) ==
    /\ g \in Evaluators /\ rw.t[g].pc = "start"
    /\ rw' = [rw EXCEPT
           !.reads = @ \cup {ReadOf("enabled", g)},
           !.t[g].pc = IF ~acl.enabled \/ extractIP(rw.t[g].addr) = NilIP
                       THEN "done" ELSE "rlock",
           !.t[g].res = IF ~acl.enabled THEN "allow"
                        ELSE IF extractIP(rw.t[g].addr) = NilIP THEN "deny" ELSE "none"]
    /\ UNCHANGED <<aclVars, notRwVars>>

\* IsAllowed: a.mu.RLock()
EvalRLock(g) ==
    /\ g \in Evaluators /\ rw.t[g].pc = "rlock"
    /\ ~WriterIn(rw.mu)
    /\ rw' = [rw EXCEPT !.mu = @ \cup {g}, !.t[g].pc = "read"]
    /\ UNCHANGED <<aclVars, notRwVars>>

\* IsAllowed: the switch on a.mode with isInWhitelist / isInBlacklist
EvalRead(g) ==
    /\ g \in Evaluators /\ rw.t[g].pc = "read"
    /\ LET ip == extractIP(rw.t[g].addr)
           ok == IF acl.mode = ModeWhitelist THEN isInWhitelist(acl, ip)
                 ELSE IF acl.mode = ModeBlacklist THEN ~isInBlacklist(acl, ip)
                 ELSE TRUE
       IN  rw' = [rw EXCEPT
              !.reads = @ \cup {ReadOf("mode", g), ReadOf("lists", g)},
              !.t[g].pc = "runlock",
              !.t[g].res = IF ok THEN "allow" ELSE "deny"]
    /\ UNCHANGED <<aclVars, notRwVars>>

\* IsAllowed: the deferred a.mu.RUnlock()
EvalRUnlock(g) ==
    /\ g \in Evaluators /\ rw.t[g].pc = "runlock"
    /\ rw' = [rw EXCEPT !.mu = @ \ {g}, !.t[g].pc = "done"]
    /\ UNCHANGED <<aclVars, notRwVars>>

\* AddWhitelist, SetMode, SetEnabled: a.mu.Lock()
MutLock(g) ==
    /\ g \in Mutators /\ rw.t[g].pc = "start"
    /\ rw.mu = {}
    /\ rw' = [rw EXCEPT !.mu = {g}, !.t[g].pc = "write"]
    /\ UNCHANGED <<aclVars, notRwVars>>

\* the assignment the method makes while it holds the lock
MutWrite(g) ==
    /\ g \in Mutators /\ rw.t[g].pc = "write"
    /\ \/ \E b \in BOOLEAN : acl' = [acl EXCEPT !.enabled = b] /\ aclOp' = "SetEnabled"
       \/ \E m \in {ModeWhitelist, ModeBlacklist} :
             acl' = [acl EXCEPT !.mode = m] /\ aclOp' = "SetMode"
       \/ /\ acl' = addToWhitelist(acl, [k |-> "ip", ip |-> 3, len |-> IPBits]).acl
          /\ aclOp' = "AddWhitelist"
    /\ rw' = [rw EXCEPT !.t[g].pc = "unlock"]
    /\ UNCHANGED notRwVars

\* the deferred a.mu.Unlock()
MutUnlock(g) ==
    /\ g \in Mutators /\ rw.t[g].pc = "unlock"
    /\ rw' = [rw EXCEPT !.mu = @ \ {g}, !.t[g].pc = "done"]
    /\ UNCHANGED <<aclVars, notRwVars>>

(***************************************************************************)
(* One WSConn written by several goroutines: data writes and pings         *)
(***************************************************************************)
\* the goroutines that write on a WSConn: the connection's handler during
\* the handshake, the forwarding loop that relays towards it, and the
\* goroutine StartPing starts
WSWriters == {"handler", "loop", "ping"}

\* mu: the goroutines holding w.mu; t[g]: goroutine g's position ("idle",
\* "locked", "writing", "written", or "exited" once a write has failed and
\* its caller has returned), the writes it has finished and whether its
\* last write returned an error; writing: the goroutines with a
\* WriteMessage or WriteControl call in progress on the underlying
\* websocket.Conn; closed: WSConn.Close has been called.
InitWSL ==
    wsl = [mu |-> {}, t |-> [g \in WSWriters |-> [pc |-> "idle", n |-> 0, err |-> FALSE]],
           writing |-> {}, closed |-> FALSE]

CanLockPingSkips(mu, g) == mu = {} \/ g = "ping"

\* sync.Mutex.Lock returns only while no goroutine holds the mutex
CanLock(mu, g) == mu = {}

\* WriteEncrypted: Encrypt, EncodeToString, then w.mu.Lock();
\* StartPing: a tick of the ticker, then w.mu.Lock()
WSLock(g) ==
    /\ wsl.t[g].pc = "idle"
    /\ wsl.t[g].n < MaxFrames \/ wsl.closed
    /\ CanLock(wsl.mu, g)
    /\ wsl' = [wsl EXCEPT !.mu = @ \cup {g}, !.t[g].pc = "locked"]
    /\ UNCHANGED <<notRestVars, callVars, cw, rw, svcVars>>

\* w.conn.WriteMessage (data) or w.conn.WriteControl (ping) is entered
WSWriteBegin(g) ==
    /\ wsl.t[g].pc = "locked"
    /\ wsl' = [wsl EXCEPT !.writing = @ \cup {g}, !.t[g].pc = "writing"]
    /\ UNCHANGED <<notRestVars, callVars, cw, rw, svcVars>>

\* whether a write on the underlying connection returns an error: always
\* once the connection is closed, and before that when the network fails
WSWriteErrs(closed) == IF closed THEN {TRUE} ELSE BOOLEAN

\* the call returns
WSWriteEnd(g) ==
    /\ wsl.t[g].pc = "writing"
    /\ \E err \in WSWriteErrs(wsl.closed) :
          wsl' = [wsl EXCEPT !.writing = @ \ {g}, !.t[g].pc = "written", !.t[g].err = err]
    /\ UNCHANGED <<notRestVars, callVars, cw, rw, svcVars>>

AfterWriteIgnoresError(err) == "idle"

\* "if err != nil { return }" of the keep-alive goroutine, and the return of
\* every caller of WriteEncrypted on its error
AfterWrite(err) == IF err THEN "exited" ELSE "idle"

\* the deferred w.mu.Unlock() of WriteEncrypted; w.mu.Unlock() of StartPing
WSUnlock(g) ==
    /\ wsl.t[g].pc = "written"
    /\ wsl' = [wsl EXCEPT !.mu = @ \ {g}, !.t[g].pc = AfterWrite(wsl.t[g].err),
                          !.t[g].n = Min(@ + 1, MaxFrames)]
    /\ UNCHANGED <<notRestVars, callVars, cw, rw, svcVars>>

\* WSConn.Close, the deferred call of the connection's handler: it takes no
\* lock and can run while another goroutine is writing
WSClose ==
    /\ ~wsl.closed
    /\ wsl.t["handler"].pc \in {"idle", "exited"}
    /\ wsl' = [wsl EXCEPT !.closed = TRUE]
    /\ UNCHANGED <<notRestVars, callVars, cw, rw, svcVars>>

(***************************************************************************)
(* Service life cycle: Server.Start, the accept loop, Server.Stop          *)
(***************************************************************************)
\* the policy of the server whose life cycle is followed: addresses 0 and 1
\* are admitted, 2 and 3 are not
ServeAclConfig == [Enable |-> TRUE, Mode |-> ModeWhitelist,
                   Whitelist |-> <<[k |-> "cidr", ip |-> 0, len |-> 1]>>,
                   Blacklist |-> <<>>]

\* pc: "idle" (Start not yet called), "listen" (startTCP before net.Listen
\* has returned), "assign" (before "s.ln = ln"), "accept" (in the loop),
\* "wslisten" and "serve" (startWebSocket before and inside ListenAndServe),
\* "failed" (Start returned an error), "returned" (Start returned nil);
\* sln: the field Server.ln, "nil" or "set"; stops: the Stop calls that have
\* returned; errs: the Accept calls that failed on an open socket.
InitServe ==
    /\ acl = New(ServeAclConfig).acl
    /\ aclOp = "New"
    /\ srvMode \in {"tcp", "ws"}
    /\ ln = "closed"
    /\ conns = <<>>
    /\ svc = [pc |-> "idle", sln |-> "nil", stops |-> 0, errs |-> 0]

\* Server.Start: the branch on config.EnableWS
StartCall ==
    /\ svc.pc = "idle"
    /\ svc' = [svc EXCEPT !.pc = IF srvMode = "ws" THEN "wslisten" ELSE "listen"]
    /\ UNCHANGED <<frontVars, aclVars, notSvcVars>>

\* startTCP: ln, err := net.Listen("tcp", ListenAddr)
StartListen ==
    /\ svc.pc = "listen"
    /\ \E ok \in BOOLEAN :
          /\ svc' = [svc EXCEPT !.pc = IF ok THEN "assign" ELSE "failed"]
          /\ ln' = IF ok THEN "open" ELSE ln
    /\ UNCHANGED <<srvMode, conns, aclVars, notSvcVars>>

\* startTCP: s.ln = ln, then into the loop
StartAssign ==
    /\ svc.pc = "assign"
    /\ svc' = [svc EXCEPT !.pc = "accept", !.sln = "set"]
    /\ UNCHANGED <<frontVars, aclVars, notSvcVars>>

\* startWebSocket: server.ListenAndServe() opens a socket that only the
\* local http.Server holds; Server.ln is not assigned
StartServe ==
    /\ svc.pc = "wslisten"
    /\ \E ok \in BOOLEAN :
          /\ svc' = [svc EXCEPT !.pc = IF ok THEN "serve" ELSE "failed"]
          /\ ln' = IF ok THEN "open" ELSE ln
    /\ UNCHANGED <<srvMode, conns, aclVars, notSvcVars>>

\* ln.Accept() of the loop returns a connection
LoopAccept == svc.pc = "accept" /\ Accept

\* http.Server, inside ListenAndServe, takes a request
ServeArrive == svc.pc = "serve" /\ HttpArrive

AfterAcceptErrorAlwaysReturns(closedErr) == "returned"

\* the loop's branch on an Accept error: "return nil" when the text of the
\* error says the socket is closed, "continue" otherwise
AfterAcceptError(closedErr) == IF closedErr THEN "returned" ELSE "accept"

\* ln.Accept() fails while the socket is open (out of descriptors, a
\* connection reset before it was accepted): log and continue
AcceptFails ==
    /\ svc.pc = "accept" /\ ln = "open"
    /\ \A i \in 1..Len(conns) : conns[i].st # "pending"
    /\ svc.errs < MaxAcceptErrors
    /\ svc' = [svc EXCEPT !.errs = @ + 1, !.pc = AfterAcceptError(FALSE)]
    /\ UNCHANGED <<frontVars, aclVars, notSvcVars>>

\* ln.Accept() fails because the socket is closed
AcceptClosed ==
    /\ svc.pc = "accept" /\ ln = "closed"
    /\ \A i \in 1..Len(conns) : conns[i].st # "pending"
    /\ svc' = [svc EXCEPT !.pc = AfterAcceptError(TRUE)]
    /\ UNCHANGED <<frontVars, aclVars, notSvcVars>>

\* What "s.ln" yields in Stop.  Stop runs in another goroutine than Start
\* and nothing orders its read after Start's assignment, so a read made
\* after the assignment may still yield nil.
SeenLn(sln) == IF sln = "set" THEN {"set", "nil"} ELSE {"nil"}

\* Stop: "if s.ln != nil { return s.ln.Close() }; return nil"
StopEffect(seen) == IF seen = "set" THEN "closed" ELSE ln

\* Server.Stop, called at any time after the call of Start
Stop ==
    /\ svc.pc # "idle"
    /\ svc.stops < MaxStops
    /\ \E seen \in SeenLn(svc.sln) : ln' = StopEffect(seen)
    /\ svc' = [svc EXCEPT !.stops = @ + 1]
    /\ UNCHANGED <<srvMode, conns, aclVars, notSvcVars>>

\* a forwarding loop of a bridging session relays one frame: towards the
\* target (a ReadEncrypted on the connection) or from it (a WriteEncrypted)
HandlerRelay(i) ==
    /\ conns[i].st = "bridge"
    /\ \/ /\ conns[i].rd < 1 + MaxRelay
          /\ conns' = [conns EXCEPT ![i] = [@ EXCEPT !.rd = @ + 1]]
       \/ /\ conns[i].wr < 1 + MaxRelay
          /\ conns' = [conns EXCEPT ![i] = [@ EXCEPT !.wr = @ + 1]]
    /\ UNCHANGED <<srvMode, ln, aclVars, notFrontVars>>

IdlePipe ==
    pipe = [key |-> NewAESCipher("pw1"), msgs |-> <<>>, sent |-> 0, wpc |-> "idle",
            pend |-> <<>>, wire |-> <<>>, rpc |-> "hdr", need |-> 4,
            got |-> <<>>, out |-> <<>>, short |-> FALSE]

IdleLenx ==
    lenx = [pc |-> "off", src |-> "none", n |-> 0, hdr |-> <<0, 0, 0, 0>>,
            body |-> 0, eof |-> FALSE, length |-> 0, alloc |-> 0, hdrn |-> 4,
            consumed |-> 0, res |-> "none", got |-> 0]

IdleFrame == IdlePipe /\ IdleLenx

IdleBoot ==
    boot = [cfg |-> [Enable |-> FALSE, Mode |-> ModeWhitelist,
                     Whitelist |-> <<>>, Blacklist |-> <<>>],
            pc |-> "off"]

IdleCalls == encs = <<>>

IdleCW == cw = [w |-> <<>>, wire |-> <<>>]

IdleRW == rw = [mu |-> {}, t |-> <<>>, reads |-> {}]

IdleWSL == wsl = [mu |-> {}, t |-> <<>>, writing |-> {}, closed |-> FALSE]

IdleLocks == IdleCW /\ IdleRW /\ IdleWSL

IdleSvc == svc = [pc |-> "off", sln |-> "nil", stops |-> 0, errs |-> 0]

IdleRest == IdleCalls /\ IdleLocks /\ IdleSvc

IdleCrypto ==
    /\ cpc = "idle"
    /\ ctx = NewAESCipher("pw1")
    /\ plaintext = <<>>
    /\ ciphertext = <<>>
    /\ decrypted = NoResult

IdleACL ==
    /\ acl = New([Enable |-> FALSE, Mode |-> "", Whitelist |-> <<>>, Blacklist |-> <<>>]).acl
    /\ aclOp = "New"

IdleFront ==
    /\ srvMode = "tcp"
    /\ ln = "closed"
    /\ conns = <<>>

IdleSess ==
    /\ tr = "tcp"
    /\ cli = [pc |-> "closed", key |-> NewAESCipher("pw1"), targetAddr |-> USE_DEFAULT,
              initialData |-> <<>>, resp |-> "none", response |-> <<>>, calls |-> <<>>,
              px |-> NoProxy]
    /\ srv = [pc |-> "idle", key |-> NewAESCipher("pw1"), payload |-> <<>>, addr |-> <<>>,
              dialed |-> <<>>, dialOk |-> FALSE, calls |-> <<>>]
    /\ loops = [l \in LoopIds |-> LoopOff]
    /\ owner = [in |-> <<>>, sent |-> 0, out |-> <<>>,
                peerClosed |-> TRUE, closed |-> TRUE]
    /\ tunnel = [open |-> FALSE, c2s |-> <<>>, s2c |-> <<>>,
                 cliClosed |-> FALSE, srvClosed |-> FALSE, broken |-> FALSE,
                 forged |-> 0]
    /\ target = [open |-> FALSE, in |-> <<>>, sent |-> 0, out |-> <<>>,
                 peerClosed |-> FALSE, closed |-> FALSE]

InitCrypto ==
    /\ IdleACL /\ IdleFront /\ IdleSess /\ IdleFrame /\ IdleBoot /\ IdleRest
    /\ cpc = "start"
    /\ ctx \in {NewAESCipher(pw) : pw \in Passwords}
    /\ plaintext \in CryptoMsgs
    /\ ciphertext = <<>>
    /\ decrypted = NoResult

DoEncrypt ==
    /\ cpc = "start"
    /\ \E iv \in IVs : ciphertext' = Encrypt(ctx, iv, plaintext)
    /\ cpc' = "encrypted"
    /\ UNCHANGED <<ctx, plaintext, decrypted, notCryptoVars>>

DoDecrypt ==
    /\ cpc = "encrypted"
    /\ decrypted' = Decrypt(ctx, ciphertext)
    /\ cpc' = "decrypted"
    /\ UNCHANGED <<ctx, plaintext, ciphertext, notCryptoVars>>

\* What a peer or the network can make of a block before it is decrypted:
\* the block itself, a cut after 0, 15 or 16 bytes or before the last byte,
\* one more byte, or a changed byte in the IV, the first or the last
\* ciphertext byte.
Corruptions(block) ==
    {block, Append(block, 0)}
    \cup {SubSeq(block, 1, k) : k \in {0, BlockSize - 1, BlockSize, Len(block) - 1}}
    \cup {[block EXCEPT ![i] = (@ + 1) % 256] :
             i \in {1, BlockSize, Len(block)} \cup
                   (IF Len(block) > BlockSize THEN {BlockSize + 1} ELSE {})}

\* the block travels and arrives as one of its corruptions
DoCorrupt ==
    /\ cpc = "encrypted"
    /\ \E b \in Corruptions(ciphertext) : ciphertext' = b
    /\ cpc' = "received"
    /\ UNCHANGED <<ctx, plaintext, decrypted, notCryptoVars>>

\* Decrypt of the block as received
DoDecryptReceived ==
    /\ cpc = "received"
    /\ decrypted' = Decrypt(ctx, ciphertext)
    /\ cpc' = "answered"
    /\ UNCHANGED <<ctx, plaintext, ciphertext, notCryptoVars>>

\* one more Encrypt(plaintext) on the same AESCipher: io.ReadFull(rand.Reader,
\* iv) delivers 16 bytes, whichever the source gives
EncryptCall ==
    /\ Len(encs) < MaxCalls
    /\ \E iv \in IVs :
          encs' = Append(encs, [iv |-> iv, block |-> Encrypt(ctx, iv, plaintext)])
    /\ UNCHANGED <<notRestVars, lockVars, svcVars>>

NextCrypto == DoEncrypt \/ DoDecrypt

SpecCrypto == InitCrypto /\ [][NextCrypto]_vars

NextCodec == DoEncrypt \/ DoCorrupt \/ DoDecryptReceived

SpecCodec == InitCrypto /\ [][NextCodec]_vars

\* C10: for every CipherContext and every message, Encrypt returns exactly
\* 16 + len(m) bytes and Decrypt of that block returns m, whatever the IV.
C10_RoundTrip ==
    /\ cpc \in {"encrypted", "decrypted"} => Len(ciphertext) = 16 + Len(plaintext)
    /\ cpc = "decrypted" => decrypted.ok /\ decrypted.data = plaintext

C10_Witness ==
    /\ cpc = "decrypted"
    /\ Len(plaintext) > BlockSize
    /\ decrypted.data = plaintext
    /\ ciphertext # SubSeq(ciphertext, 1, BlockSize) \o plaintext

(***************************************************************************)
(* Access control exercise: construction and runtime mutation              *)
(***************************************************************************)
InitACLSpec ==
    IdleCrypto /\ IdleFront /\ IdleSess /\ IdleFrame /\ IdleBoot /\ IdleRest /\ InitACL

NextACL ==
    \/ AddWhitelist
    \/ AddBlacklist
    \/ RemoveWhitelist
    \/ RemoveBlacklist
    \/ SetMode
    \/ SetEnabled

SpecACL == InitACLSpec /\ [][NextACL]_vars

\* the address a peer-address string denotes: its host part when that is an
\* IP literal (bare or followed by a port), none otherwise
PeerIP(addr) == IF addr.host.k = "ip" THEN {addr.host.ip} ELSE {}

\* the addresses of a prefix range: base .. base + 2^(IPBits - len) - 1
RangeOf(ipNet) == {x \in IPAddrs : ipNet.base <= x /\ x < ipNet.base + Pow2(IPBits - ipNet.len)}

Elems(s) == {s[i] : i \in 1..Len(s)}

AllowGroup(a) == Elems(a.whiteIPs) \cup UNION {RangeOf(n) : n \in Elems(a.whitelist)}
DenyGroup(a) == Elems(a.blackIPs) \cup UNION {RangeOf(n) : n \in Elems(a.blacklist)}

\* C5: enabled and in Allow mode, after any sequence of Add/Remove, a peer is
\* permitted iff its extracted address is an explicit allow-list entry or
\* lies inside an allow-list prefix range currently held.
C5_AllowMode ==
    (acl.enabled /\ acl.mode = ModeWhitelist) =>
        \A addr \in Addrs :
            IsAllowed(acl, addr) <=> (PeerIP(addr) \cap AllowGroup(acl) # {})

C5_Witness ==
    /\ aclOp = "RemoveWhitelist"
    /\ acl.enabled /\ acl.mode = ModeWhitelist
    /\ acl.whiteIPs = <<>> /\ Len(acl.whitelist) = 1
    /\ \E a1, a2 \in Addrs : /\ PeerIP(a1) # {} /\ PeerIP(a2) # {}
                             /\ IsAllowed(acl, a1) /\ ~IsAllowed(acl, a2)

\* C6: enabled and in Deny mode, after any sequence of Add/Remove, a peer is
\* permitted iff its extracted address is neither an explicit deny-list
\* entry nor inside a deny-list prefix range currently held.
C6_DenyMode ==
    (acl.enabled /\ acl.mode = ModeBlacklist) =>
        \A addr \in Addrs :
            IsAllowed(acl, addr) <=> (PeerIP(addr) # {} /\ PeerIP(addr) \cap DenyGroup(acl) = {})

C6_Witness ==
    /\ aclOp = "RemoveBlacklist"
    /\ acl.enabled /\ acl.mode = ModeBlacklist
    /\ acl.blackIPs = <<>> /\ Len(acl.blacklist) = 1
    /\ \E a1, a2 \in Addrs : /\ PeerIP(a1) # {} /\ PeerIP(a2) # {}
                             /\ IsAllowed(acl, a1) /\ ~IsAllowed(acl, a2)

(***************************************************************************)
(* Front-end exercise: connections and requests against a live policy      *)
(***************************************************************************)
InitFrontSpec == IdleCrypto /\ IdleSess /\ IdleFrame /\ IdleBoot /\ IdleRest /\ InitFront

NextFront ==
    \/ Accept
    \/ \E i \in 1..Len(conns) : Admit(i)
    \/ HttpArrive
    \/ \E i \in 1..Len(conns) : ServeRequest(i)
    \/ \E i \in 1..Len(conns) : HandlerRead(i)
    \/ \E i \in 1..Len(conns) : HandlerDial(i)
    \/ \E i \in 1..Len(conns) : HandlerRespond(i)
    \/ \E i \in 1..Len(conns) : HandlerFinish(i)
    \/ SetMode
    \/ SetEnabled

SpecFront == InitFrontSpec /\ [][NextFront]_vars

Decided(c) == c.st # "pending"

\* C7: in text mode a request from a peer whose network address the policy
\* denies gets the 403 answer and is never upgraded, whatever its headers;
\* requests that differ only in headers get the same access decision.
C7_PeerAddressDecides ==
    /\ \A i \in 1..Len(conns) :
          (srvMode = "ws" /\ Decided(conns[i]) /\ conns[i].verdict = "deny")
              => (conns[i].st = "forbidden" /\ ~conns[i].task)
    /\ \A i \in 1..Len(conns) : \A r \in Requests :
          (srvMode = "ws" /\ conns[i].st = "pending" /\ r.peer = conns[i].peer
             /\ r.path = conns[i].req.path /\ r.wsreq = conns[i].req.wsreq)
              => ((wrappedHandler(acl, r) = "forbidden")
                    <=> (wrappedHandler(acl, AsRequest(conns[i])) = "forbidden"))

\* C8: in raw mode a connection whose peer address the policy denies is
\* closed with no byte read or written on it, no session task and no dial.
C8_RawDeniedUntouched ==
    \A i \in 1..Len(conns) :
        (srvMode = "tcp" /\ Decided(conns[i]) /\ conns[i].verdict = "deny")
            => /\ conns[i].st = "rejected"
               /\ ~conns[i].task
               /\ conns[i].rd = 0 /\ conns[i].wr = 0
               /\ ~conns[i].dialed

C8_Witness ==
    /\ srvMode = "tcp" /\ Len(conns) = 2
    /\ conns[1].verdict = "deny" /\ conns[1].st = "rejected"
    /\ conns[2].verdict = "allow" /\ conns[2].dialed

\* C9: in text mode a request whose path differs from the upgrade path gets
\* the static 200 page, never an error status, and never reaches the upgrade
\* or the handshake, whoever sent it and whatever the policy is.
C9_OtherPathGetsFakePage ==
    \A i \in 1..Len(conns) :
        (srvMode = "ws" /\ Decided(conns[i]) /\ conns[i].req.path # ConfigPath)
            => (conns[i].st = serveFakePage /\ ~conns[i].task)

(***************************************************************************)
(* Session exercise: one initiator, one responder, both transports         *)
(***************************************************************************)
InitSessSpec ==
    IdleCrypto /\ IdleACL /\ IdleFront /\ IdleFrame /\ IdleBoot /\ IdleRest /\ InitSess

NextSess ==
    \/ OwnerSend
    \/ OwnerClose
    \/ TargetSend
    \/ TargetClose
    \/ TunnelBreak
    \/ CliDial
    \/ CliSendAddr
    \/ CliReadResp
    \/ CliInitData
    \/ SrvReadAddr
    \/ SrvDial
    \/ SrvSendErr
    \/ SrvSendOK
    \/ \E l \in {"cliUp", "srvUp"} : PlainRead(l)
    \/ \E l \in {"cliUp", "srvUp"} : EncWrite(l)
    \/ \E l \in {"cliDown", "srvDown"} : EncRead(l)
    \/ \E l \in {"cliDown", "srvDown"} : PlainWrite(l)
    \/ CliJoin
    \/ SrvJoin

Spec == InitSessSpec /\ [][NextSess]_vars

LoopsOff(ids) == \A l \in ids : loops[l].pc = "off"

\* C1: the initiator starts its forwarding loops only after reading a response
\* that begins with OK; on any other response, or a failed response read, it
\* aborts without starting them and without writing any further frame.
C1_BridgeOnlyAfterOK ==
    /\ ~LoopsOff({"cliUp", "cliDown"}) => (cli.resp = "ok" /\ HasPrefix(cli.response, OK))
    /\ cli.pc \in {"initdata", "bridge"} => HasPrefix(cli.response, OK)
    /\ (cli.resp = "readerr" \/ (cli.resp # "none" /\ ~HasPrefix(cli.response, OK)))
          => /\ cli.pc = "closed"
             /\ LoopsOff({"cliUp", "cliDown"})
             /\ cli.calls = <<cli.targetAddr>>

C1_Witness ==
    /\ cli.resp = "rejected" /\ HasPrefix(cli.response, ERROR)
    /\ cli.initialData # <<>> /\ cli.calls = <<cli.targetAddr>>
    /\ cli.pc = "closed" /\ owner.closed /\ tunnel.cliClosed

DialFailed == srv.dialed # <<>> /\ ~srv.dialOk

\* C2: when the dial to the resolved target fails, the responder makes exactly
\* one response write, its payload beginning with ERROR:, before it closes the
\* initiator-facing connection, and it never starts a forwarding loop.
C2_DialFailureAnswered ==
    DialFailed =>
        /\ LoopsOff({"srvUp", "srvDown"})
        /\ Len(srv.calls) <= 1
        /\ \A i \in 1..Len(srv.calls) : HasPrefix(srv.calls[i], ERROR)
        /\ (tunnel.srvClosed \/ srv.pc = "closed") => Len(srv.calls) = 1

C2_Witness ==
    /\ DialFailed /\ srv.pc = "closed" /\ tunnel.srvClosed
    /\ srv.calls = <<ERROR \o DialErrorText>>
    /\ cli.resp = "rejected"

\* C3: the responder writes a response beginning with OK only after its dial
\* succeeded, and that is the first frame it writes: nothing read from the
\* target goes to the initiator before it.
C3_OKAfterDialFirst ==
    /\ \A i \in 1..Len(srv.calls) :
          HasPrefix(srv.calls[i], OK) => (srv.dialOk /\ srv.dialed # <<>> /\ i = 1)
    /\ srv.calls = <<>> =>
          /\ tunnel.s2c = <<>>
          /\ LoopsOff({"srvUp", "srvDown"})
          /\ target.in = SubSeq(TargetData, 1, target.sent)
    /\ ~LoopsOff({"srvUp", "srvDown"}) => (srv.calls = <<OK>> /\ srv.dialOk)

C3_Witness ==
    /\ srv.calls = <<OK>> /\ srv.dialOk
    /\ loops["srvUp"].wr = TargetData
    /\ cli.resp = "ok"

SameKey == cli.key = srv.key

InitFrameSpec ==
    /\ IdleCrypto /\ IdleACL /\ IdleFront /\ IdleSess /\ IdleBoot /\ IdleRest
    /\ \/ InitPipe /\ IdleLenx
       \/ IdlePipe /\ InitLenx

NextFrame ==
    \/ PipeWriteHeader
    \/ PipeWriteBody
    \/ PipeRead
    \/ LenxWriteEncrypted
    \/ LenxPeerWrites
    \/ LenxPeerCuts
    \/ LenxReadHeader
    \/ LenxReadBody

SpecFrame == InitFrameSpec /\ [][NextFrame]_vars

\* C11: the payloads one writer hands to WriteEncrypted come out of the
\* reader's successive ReadEncrypted calls unchanged and in order, however
\* the stream cuts the bytes into reads; a payload of 0 up to 10,485,744
\* bytes is never refused and comes back with its own size.
C11_FramesRoundTrip ==
    /\ pipe.rpc # "err"
    /\ IsPrefix(pipe.out, pipe.msgs)
    /\ (pipe.sent = Len(pipe.msgs) /\ pipe.wire = <<>>) => pipe.out = pipe.msgs
    /\ (lenx.pc = "returned" /\ lenx.src \notin {"none", "peer"} /\ lenx.n <= 10485744)
          => (lenx.res = "ok" /\ lenx.got = lenx.n)

C11_Witness ==
    /\ Len(pipe.out) >= 2 /\ pipe.out = pipe.msgs
    /\ pipe.short
    /\ pipe.out[1] = <<>> /\ Len(pipe.out[2]) > BlockSize

\* the length a frame's four header bytes declare, most significant first
Declared(h) == (((((h[1] * 256) + h[2]) * 256) + h[3]) * 256) + h[4]

\* C12: a header that declares 0 or more than 10,485,760 makes ReadEncrypted
\* return the invalid-length error with only the 4 header bytes taken from
\* the stream and no body buffer made; for a header in 1..10,485,760 it
\* makes a buffer of that size and reads exactly that many body bytes (or
\* fewer only when the stream ends first).
C12_InvalidLengthRejected ==
    (lenx.pc \in {"body", "returned"} /\ lenx.hdrn = 4) =>
        IF Declared(lenx.hdr) = 0 \/ Declared(lenx.hdr) > 10485760
        THEN /\ lenx.pc = "returned"
             /\ lenx.res = "invalid data length"
             /\ lenx.consumed = 4
             /\ lenx.alloc = 0
        ELSE /\ lenx.alloc = Declared(lenx.hdr)
             /\ lenx.res # "invalid data length"
             /\ (lenx.pc = "returned" /\ lenx.body >= Declared(lenx.hdr))
                   => lenx.consumed = 4 + Declared(lenx.hdr)
             /\ (lenx.pc = "returned" /\ lenx.body < Declared(lenx.hdr))
                   => (lenx.res \in {"EOF", "unexpected EOF"}
                       /\ lenx.consumed = 4 + lenx.body)

C12_Witness ==
    /\ lenx.pc = "returned" /\ lenx.src = "peer"
    /\ Declared(lenx.hdr) = 10485761 /\ lenx.body > 0
    /\ lenx.res = "invalid data length" /\ lenx.consumed = 4

\* C13: every frame a session writes on the raw transport (address,
\* response, initial data, relayed chunk) declares a length that is the byte
\* count of the block after it and lies in 1..10,485,760, so the reader
\* never answers it with the invalid-length error.
C13_WrittenLengthsValid ==
    lenx.src \in {"address", "response", "initdata", "chunk"} =>
        /\ Declared(lenx.hdr) = lenx.body
        /\ 0 < Declared(lenx.hdr) /\ Declared(lenx.hdr) <= 10485760
        /\ lenx.res # "invalid data length"

\* C14: Decrypt returns the malformed-block error exactly when the block has
\* fewer than 16 bytes; for every block of 16 bytes or more, cut, extended
\* or altered ones included, it succeeds with len(block) - 16 bytes.
C14_DecryptFailsOnlyWhenShort ==
    cpc = "answered" =>
        /\ ~decrypted.ok <=> Len(ciphertext) < 16
        /\ decrypted.ok => Len(decrypted.data) = Len(ciphertext) - 16

C14_Witness ==
    /\ cpc = "answered" /\ decrypted.ok
    /\ Len(ciphertext) = 16 + Len(plaintext)
    /\ decrypted.data # plaintext

C16_InitialDataOnceBeforeBridge ==
    /\ (cli.initialData # <<>> /\ ~LoopsOff({"cliUp", "cliDown"}))
          => cli.calls = <<cli.targetAddr, cli.initialData>>
    /\ Len(cli.calls) >= 2
          => /\ cli.resp = "ok" /\ cli.initialData # <<>>
             /\ cli.calls = <<cli.targetAddr, cli.initialData>>
    /\ cli.resp \in {"rejected", "readerr"} => Len(cli.calls) = 1
    /\ (SameKey /\ cli.initialData # <<>> /\ target.out # <<>>)
          => IsPrefix(cli.initialData, target.out)

C16_Witness ==
    /\ tr = "tcp" /\ SameKey /\ cli.initialData # <<>>
    /\ cli.calls = <<cli.targetAddr, cli.initialData>>
    /\ IsPrefix(cli.initialData, target.out)
    /\ Len(target.out) > Len(cli.initialData)

\* C17 as stated: IsAllowed denies every peer-address string from which no
\* IP address can be extracted, whatever the enabled flag, mode and lists.
C17_UnextractableAlwaysDenied ==
    \A addr \in Addrs : PeerIP(addr) = {} => ~IsAllowed(acl, addr)

\* C17 amended: while the policy is enabled, IsAllowed denies every
\* peer-address string from which no IP address can be extracted, whatever
\* the mode and the lists.
C17_UnextractableDeniedWhenEnabled ==
    acl.enabled => \A addr \in Addrs : PeerIP(addr) = {} => ~IsAllowed(acl, addr)

C17_Witness ==
    /\ acl.enabled /\ acl.mode = ModeBlacklist
    /\ EntryCount(acl) > 0
    /\ \E addr \in Addrs : PeerIP(addr) = {} /\ ~IsAllowed(acl, addr)
    /\ \E addr \in Addrs : PeerIP(addr) # {} /\ IsAllowed(acl, addr)

\* C18: while the policy's enabled flag is false, IsAllowed permits every
\* peer address, whatever the mode and the contents of the lists.
C18_DisabledPermitsAll ==
    ~acl.enabled => \A addr \in Addrs : IsAllowed(acl, addr)

C18_Witness ==
    /\ ~acl.enabled /\ aclOp = "SetEnabled"
    /\ acl.mode = ModeWhitelist /\ acl.whiteIPs # <<>>
    /\ \E addr \in Addrs : PeerIP(addr) # {} /\ ~isInWhitelist(acl, extractIP(addr))

(***************************************************************************)
(* The session under fair scheduling of its goroutines                     *)
(***************************************************************************)
\* the steps of the program's goroutines: the two handlers and the four
\* forwarding loops
GoStep ==
    \/ CliDial \/ CliSendAddr \/ CliReadResp \/ CliInitData \/ CliJoin
    \/ SrvReadAddr \/ SrvDial \/ SrvSendErr \/ SrvSendOK \/ SrvJoin
    \/ \E l \in {"cliUp", "srvUp"} : PlainRead(l) \/ EncWrite(l)
    \/ \E l \in {"cliDown", "srvDown"} : EncRead(l) \/ PlainWrite(l)

\* a session on the raw transport between ends that share the password
InitLive == InitSessSpec /\ tr = "tcp" /\ cli.key = srv.key

\* While some goroutine can take a step, a goroutine eventually takes one.
\* Every goroutine runs out of steps after finitely many (the streams are
\* finite), so no goroutine is passed over for ever.  What the local peer,
\* the target and the network do is left to them.
SpecLive == InitLive /\ [][NextSess]_vars /\ WF_vars(GoStep)

\* C19: once one forwarding loop of a session has returned, the session's
\* other loop returns too and the session closes both its endpoints, with
\* no further close or byte from the peers.
C19_LoopExitTearsDown ==
    /\ (loops["cliUp"].pc = "done" \/ loops["cliDown"].pc = "done")
          ~> (cli.pc = "closed" /\ owner.closed /\ tunnel.cliClosed)
    /\ (loops["srvUp"].pc = "done" \/ loops["srvDown"].pc = "done")
          ~> (srv.pc = "closed" /\ tunnel.srvClosed /\ target.closed)

(***************************************************************************)
(* Start-up exercise: a configuration, server.New, Server.Start            *)
(***************************************************************************)
InitBootSpec == IdleCrypto /\ IdleSess /\ IdleFrame /\ IdleRest /\ InitBoot

NextBoot == ServerNew \/ ServerStart

SpecBoot == InitBootSpec /\ [][NextBoot]_vars

Malformed(list) == \E i \in 1..Len(list) : list[i] \in BadItems

\* C20: a configuration with a malformed address or an unparseable CIDR
\* entry in either list makes server.New fail, and the listener is never
\* opened, whether or not the configuration enables access control.
C20_MalformedConfigNeverStarts ==
    (Malformed(boot.cfg.Whitelist) \/ Malformed(boot.cfg.Blacklist))
        => /\ boot.pc \in {"config", "failed"}
           /\ ln = "closed"

(***************************************************************************)
(* Life-cycle exercise: Start, connections and their sessions, Stop        *)
(***************************************************************************)
InitServeSpec ==
    IdleCrypto /\ IdleSess /\ IdleFrame /\ IdleBoot /\ IdleCalls /\ IdleLocks /\ InitServe

NextServe ==
    \/ StartCall
    \/ StartListen
    \/ StartAssign
    \/ StartServe
    \/ LoopAccept
    \/ AcceptFails
    \/ AcceptClosed
    \/ Stop
    \/ \E i \in 1..Len(conns) : Admit(i)
    \/ ServeArrive
    \/ \E i \in 1..Len(conns) : ServeRequest(i)
    \/ \E i \in 1..Len(conns) : HandlerRead(i)
    \/ \E i \in 1..Len(conns) : HandlerDial(i)
    \/ \E i \in 1..Len(conns) : HandlerRespond(i)
    \/ \E i \in 1..Len(conns) : HandlerRelay(i)
    \/ \E i \in 1..Len(conns) : HandlerFinish(i)

SpecServe == InitServeSpec /\ [][NextServe]_vars

\* the step from c to d is a session ending in an error: the address read
\* failed (transport or decode error), the dial failed (handshake failure),
\* or the session left the bridge
Failing(c, d) ==
    \/ c.st = "handshake" /\ d.st = "done"
    \/ c.st = "dialing" /\ d.st = "responderr"
    \/ c.st = "responderr" /\ d.st = "done"
    \/ c.st = "bridge" /\ d.st = "done"

\* the steps of session j's own goroutines
SessionStep(j) ==
    HandlerRead(j) \/ HandlerDial(j) \/ HandlerRespond(j) \/ HandlerRelay(j) \/ HandlerFinish(j)

\* C21: a step in which one session ends in an error leaves every other
\* session's record (handshake position, reads, writes, dial), the listening
\* socket, the accept loop and the policy as they were; and every session
\* that has not ended can take its next step, whatever happened to others.
C21_SessionErrorsStayLocal ==
    /\ [][\A i \in 1..Len(conns) :
            Failing(conns[i], conns'[i]) =>
                /\ Len(conns') = Len(conns)
                /\ \A j \in 1..Len(conns) : j # i => conns'[j] = conns[j]
                /\ ln' = ln /\ svc' = svc /\ acl' = acl]_vars
    /\ [](\A j \in 1..Len(conns) :
            (conns[j].task /\ conns[j].st # "done") => ENABLED SessionStep(j))

C21_Witness ==
    /\ Len(conns) = 2
    /\ conns[1].st = "done" /\ conns[1].rd = 1 /\ ~conns[1].dialed
    /\ conns[2].st = "done" /\ conns[2].rd = 1 + MaxRelay /\ conns[2].wr = 1 + MaxRelay

\* C22: once a call of Stop made after the call of Start has returned, the
\* listening socket is not open, in raw mode and in text mode, at whatever
\* point of Start the call came.
C22_StopClosesListener ==
    svc.stops > 0 => ln # "open"

\* C29: in raw mode the accept loop has returned only when the listening
\* socket is closed; while the socket is open the loop is running, and
\* after failed Accept calls, rejected peers and ended sessions it accepts
\* the next connection.
C29_LoopReturnsOnlyWhenClosed ==
    /\ (srvMode = "tcp" /\ svc.pc = "returned") => ln = "closed"
    /\ (srvMode = "tcp" /\ svc.sln = "set" /\ ln = "open") => svc.pc = "accept"
    /\ (srvMode = "tcp" /\ svc.sln = "set" /\ ln = "open" /\ Len(conns) < MaxConns
          /\ \A i \in 1..Len(conns) : conns[i].st # "pending")
          => ENABLED LoopAccept

C29_Witness ==
    /\ srvMode = "tcp" /\ svc.pc = "accept" /\ ln = "open" /\ svc.errs > 0
    /\ Len(conns) = 2
    /\ conns[1].st = "rejected"
    /\ conns[2].st = "done" /\ ~conns[2].dialed

(***************************************************************************)
(* Repeated Encrypt calls on one AESCipher with one plaintext              *)
(***************************************************************************)
SpecIV == InitCrypto /\ [][EncryptCall]_vars

InitCWSpec ==
    /\ IdleCrypto /\ IdleACL /\ IdleFront /\ IdleSess /\ IdleFrame /\ IdleBoot
    /\ IdleCalls /\ IdleSvc /\ IdleRW /\ IdleWSL
    /\ InitCW

NextCW ==
    \/ \E t \in 1..MaxWriters : CWWriteHeader(t)
    \/ \E t \in 1..MaxWriters : CWWriteBody(t)

SpecCW == InitCWSpec /\ [][NextCW]_vars

\* C24: with several goroutines in WriteEncrypted on one CryptoConn, the
\* stream is a sequence of whole frames: every header is followed directly
\* by the body of the same call, and every body follows its own header.
C24_WholeFramesOnWire ==
    \A p \in 1..Len(cw.wire) :
        /\ (cw.wire[p].part = "hdr" /\ p < Len(cw.wire))
              => cw.wire[p + 1] = [cw.wire[p] EXCEPT !.part = "body"]
        /\ cw.wire[p].part = "body"
              => (p > 1 /\ cw.wire[p - 1] = [cw.wire[p] EXCEPT !.part = "hdr"])

(***************************************************************************)
(* Concurrent use of one ACL                                               *)
(***************************************************************************)
InitRWSpec ==
    /\ IdleCrypto /\ IdleFront /\ IdleSess /\ IdleFrame /\ IdleBoot
    /\ IdleCalls /\ IdleSvc /\ IdleCW /\ IdleWSL
    /\ InitRW

NextRW ==
    \/ \E g \in Evaluators : EvalReadEnabled(g)
    \/ \E g \in Evaluators : EvalRLock(g)
    \/ \E g \in Evaluators : EvalRead(g)
    \/ \E g \in Evaluators : EvalRUnlock(g)
    \/ \E g \in Mutators : MutLock(g)
    \/ \E g \in Mutators : MutWrite(g)
    \/ \E g \in Mutators : MutUnlock(g)

SpecRW == InitRWSpec /\ [][NextRW]_vars

\* C25: every read of a policy field by IsAllowed (enabled, mode, lists) is
\* made while the reading goroutine holds the read lock, and never while a
\* mutator holds the write lock.
C25_ReadsUnderReadLock ==
    \A e \in rw.reads : e.locked /\ ~e.during

(***************************************************************************)
(* Concurrent writes on one WSConn                                         *)
(***************************************************************************)
InitWSLSpec ==
    /\ IdleCrypto /\ IdleACL /\ IdleFront /\ IdleSess /\ IdleFrame /\ IdleBoot
    /\ IdleCalls /\ IdleSvc /\ IdleCW /\ IdleRW
    /\ InitWSL

NextWSL ==
    \/ \E g \in WSWriters : WSLock(g)
    \/ \E g \in WSWriters : WSWriteBegin(g)
    \/ \E g \in WSWriters : WSWriteEnd(g)
    \/ \E g \in WSWriters : WSUnlock(g)

SpecWSL == InitWSLSpec /\ [][NextWSL]_vars

\* C26: on one WSConn at most one write on the underlying connection is in
\* progress at any time, a data write of WriteEncrypted or a ping of the
\* keep-alive goroutine, and the goroutine making it holds the write lock.
C26_OneWriteAtATime ==
    /\ Cardinality(wsl.writing) <= 1
    /\ wsl.writing \subseteq wsl.mu
    /\ Cardinality(wsl.mu) <= 1

C26_Witness ==
    /\ wsl.writing = {"ping"}
    /\ wsl.t["handler"].n >= 1 /\ wsl.t["loop"].n >= 1
    /\ wsl.t["loop"].pc = "idle"

(***************************************************************************)
(* The session's own closes and its forwarding loops                       *)
(***************************************************************************)
Running(l) == loops[l].pc \in {"read", "write"}

\* C27: while a forwarding loop of a session's side is running, that side
\* has closed neither of its two endpoints; the two loops of a side start
\* together, and the side's closes come only when both have returned.
C27_NoCloseWhileLoopRuns ==
    /\ (Running("cliUp") \/ Running("cliDown")) => (~owner.closed /\ ~tunnel.cliClosed)
    /\ (Running("srvUp") \/ Running("srvDown")) => (~tunnel.srvClosed /\ ~target.closed)
    /\ (loops["cliUp"].pc = "off") <=> (loops["cliDown"].pc = "off")
    /\ (loops["srvUp"].pc = "off") <=> (loops["srvDown"].pc = "off")
    /\ (cli.pc = "closed" /\ ~LoopsOff({"cliUp", "cliDown"}))
          => (loops["cliUp"].pc = "done" /\ loops["cliDown"].pc = "done")
    /\ (srv.pc = "closed" /\ ~LoopsOff({"srvUp", "srvDown"}))
          => (loops["srvUp"].pc = "done" /\ loops["srvDown"].pc = "done")

C27_Witness ==
    /\ cli.pc = "closed" /\ owner.closed /\ tunnel.cliClosed
    /\ srv.pc = "closed" /\ tunnel.srvClosed /\ target.closed
    /\ \A l \in LoopIds : loops[l].pc = "done"
    /\ target.out # <<>> /\ owner.out # <<>>

(***************************************************************************)
(* The handshake as a state machine                                        *)
(***************************************************************************)
\* how far a side is: 0 before the address frame has passed (Start), 1
\* between the address frame and the response (AddressSent and
\* AwaitingResponse on the initiator, dialling and answering on the
\* responder), 2 once the handshake has ended
CliRank == IF cli.pc \in {"dial", "sendaddr"} THEN 0
           ELSE IF cli.pc = "readresp" THEN 1 ELSE 2

SrvRank == IF srv.pc \in {"idle", "readaddr"} THEN 0
           ELSE IF srv.pc \in {"dial", "sendok", "senderr"} THEN 1 ELSE 2

CliEstablished == cli.pc \in {"initdata", "bridge"} \/ ~LoopsOff({"cliUp", "cliDown"})
CliFailed == cli.pc = "closed" /\ cli.resp # "ok"
SrvEstablished == srv.pc = "bridge" \/ ~LoopsOff({"srvUp", "srvDown"})
SrvFailed == srv.pc = "closed" /\ LoopsOff({"srvUp", "srvDown"})

\* C28: each side's handshake only moves forward and ends in exactly one
\* of Established and Failed, which it never leaves; the initiator has
\* written exactly the address frame when it reads the response, and reads
\* a response once; the responder reads the address once and writes at most
\* one response frame, after that read.
C28_HandshakeMovesForward ==
    /\ [][/\ CliRank' >= CliRank /\ SrvRank' >= SrvRank
          /\ CliRank' <= CliRank + 1 \/ (CliRank = 0 /\ cli'.pc = "closed")
          /\ SrvRank' <= SrvRank + 1 \/ (SrvRank = 0 /\ srv'.pc = "closed")
          /\ CliEstablished => (cli'.resp = "ok" /\ ~CliFailed')
          /\ CliFailed => (CliFailed' /\ ~CliEstablished')
          /\ SrvEstablished => (SrvEstablished' \/ srv'.pc = "closed") /\ ~SrvFailed'
          /\ SrvFailed => (SrvFailed' /\ ~SrvEstablished')
          /\ cli'.resp # cli.resp => (cli.pc = "readresp" /\ cli.resp = "none")
          /\ srv'.payload # srv.payload => srv.pc = "readaddr"
          /\ srv'.calls # srv.calls => SrvRank = 1]_vars
    /\ [](/\ cli.pc = "readresp" => cli.calls = <<cli.targetAddr>>
          /\ cli.calls # <<>> => cli.calls[1] = cli.targetAddr
          /\ Len(srv.calls) <= 1
          /\ CliRank = 2 => (CliEstablished \/ cli.resp = "ok") # CliFailed
          /\ SrvRank = 2 => SrvEstablished # SrvFailed
          /\ CliEstablished => cli.resp = "ok"
          /\ SrvEstablished => srv.calls = <<OK>>)

C28_Witness ==
    /\ tr = "ws"
    /\ cli.pc = "bridge" /\ cli.resp = "ok" /\ cli.calls = <<cli.targetAddr>>
    /\ srv.pc = "bridge" /\ srv.calls = <<OK>>
    /\ CliEstablished /\ SrvEstablished

(***************************************************************************)
(* A session whose far end sends malformed frames                          *)
(***************************************************************************)
InitTamperSpec ==
    /\ InitSessSpec
    /\ cli.key = srv.key
    /\ cli.targetAddr = NamedTarget

NextTamper ==
    \/ NextSess
    \/ \E l \in {"cliDown", "srvDown"} : TunnelForge(l)

SpecTamper == InitTamperSpec /\ [][NextTamper]_vars

\* the next ReadEncrypted of loop l fails on the frame itself: its own end
\* is open, the connection is up, and the error does not depend on whether
\* more bytes arrive
DecodeErrorAt(l) ==
    /\ loops[l].pc = "read" /\ ~tunnel.broken
    /\ IF l = "cliDown"
       THEN ~tunnel.cliClosed /\ ReadEncrypted(tr, cli.key, tunnel.s2c, FALSE).st = "err"
       ELSE ~tunnel.srvClosed /\ ReadEncrypted(tr, srv.key, tunnel.c2s, FALSE).st = "err"

\* C30: when a relay loop's read fails to decode a frame (invalid length,
\* invalid base64, block shorter than 16 bytes), the loop returns with an
\* error having written nothing of that frame to its destination, and a
\* loop that has returned takes nothing more from the tunnel and writes
\* nothing more.
C30_DecodeErrorEndsRelay ==
    [][\A l \in {"cliDown", "srvDown"} :
         LET chan  == IF l = "cliDown" THEN tunnel.s2c ELSE tunnel.c2s
             chan2 == IF l = "cliDown" THEN tunnel'.s2c ELSE tunnel'.c2s
             out   == IF l = "cliDown" THEN owner.out ELSE target.out
             out2  == IF l = "cliDown" THEN owner'.out ELSE target'.out
         IN  /\ (DecodeErrorAt(l) /\ loops'[l] # loops[l]) =>
                   /\ loops'[l].pc = "done" /\ loops'[l].end = "rerr"
                   /\ loops'[l].wr = loops[l].wr /\ loops'[l].rd = loops[l].rd
                   /\ out2 = out
             /\ (loops[l].end = "rerr") =>
                   /\ loops'[l] = loops[l] /\ loops[l].pc = "done"
                   /\ out2 = out
                   /\ IsPrefix(chan, chan2)]_vars

C30_Witness ==
    /\ loops["cliDown"].pc = "done" /\ loops["cliDown"].end = "rerr"
    /\ tunnel.forged > 0 /\ ~tunnel.broken /\ ~tunnel.cliClosed
    /\ loops["cliDown"].rd = TargetData /\ owner.out = TargetData
    /\ loops["cliUp"].pc = "read"

(***************************************************************************)
(* A raw stream that ends inside a frame                                   *)
(***************************************************************************)
\* the stream ends inside the header, or after a header that passes the
\* length test and before the body it declares is complete
EndsMidFrame ==
    /\ lenx.eof
    /\ \/ lenx.hdrn < 4
       \/ /\ ~InvalidLength(HeaderLen(lenx.hdr))
          /\ lenx.body < HeaderLen(lenx.hdr)

\* C31: when the stream ends inside the 4-byte header or inside the body,
\* ReadEncrypted returns an end-of-stream error (io.EOF or
\* io.ErrUnexpectedEOF), never the invalid-length or the malformed-block
\* error, and no plaintext.
C31_ShortReadIsEndOfStream ==
    (lenx.pc = "returned" /\ EndsMidFrame) =>
        /\ lenx.res \in {"EOF", "unexpected EOF"}
        /\ lenx.got = 0
        /\ lenx.consumed = (IF lenx.hdrn < 4 THEN lenx.hdrn ELSE 4 + lenx.body)

C31_Witness ==
    /\ lenx.pc = "returned" /\ lenx.eof /\ lenx.hdrn = 4
    /\ 0 < lenx.body /\ lenx.body < HeaderLen(lenx.hdr)
    /\ lenx.res = "unexpected EOF" /\ lenx.consumed = 4 + lenx.body

(***************************************************************************)
(* The keep-alive goroutine of a WSConn that is closed                     *)
(***************************************************************************)
NextPing == NextWSL \/ WSClose

\* the goroutine StartPing starts, from a tick to the test of the error
PingStep ==
    WSLock("ping") \/ WSWriteBegin("ping") \/ WSWriteEnd("ping") \/ WSUnlock("ping")

\* a goroutine that holds the lock goes on to release it
WriterStep == \E g \in WSWriters : WSWriteBegin(g) \/ WSWriteEnd(g) \/ WSUnlock(g)

\* The ticker keeps ticking and the scheduler runs every goroutine that can
\* run; sync.Mutex hands the lock to a goroutine that keeps waiting for it.
SpecPing ==
    /\ InitWSLSpec /\ [][NextPing]_vars
    /\ WF_vars(WriterStep) /\ SF_vars(WSLock("ping"))

\* C32: once the WSConn is closed the keep-alive goroutine exits; a step of
\* that goroutine, its exit included, neither closes the connection nor
\* changes the position of any other goroutine.
C32_PingExitsAfterClose ==
    /\ wsl.closed ~> wsl.t["ping"].pc = "exited"
    /\ [][wsl'.t["ping"] # wsl.t["ping"] =>
            /\ wsl'.closed = wsl.closed
            /\ \A g \in WSWriters \ {"ping"} : wsl'.t[g] = wsl.t[g]]_vars

C32_Witness ==
    /\ wsl.closed
    /\ wsl.t["ping"].pc = "exited" /\ wsl.t["ping"].n >= 2
    /\ wsl.t["loop"].pc = "exited"

(***************************************************************************)
(* The handshake on the two transports                                     *)
(***************************************************************************)
\* what the reader's Decrypt makes of the block the writer's Encrypt made of
\* data: no transport takes part in it
Delivered(wkey, rkey, iv, data) == Decrypt(rkey, Encrypt(wkey, iv, data)).data

\* C33: on either transport, while the connection has not failed, every
\* payload the handshake writes or reads and the final state of each side
\* are given by expressions of the requested address, the default target,
\* the keys and the dial outcome in which the transport does not occur; so
\* the handshake runs the same on the raw and on the text transport.
C33_HandshakeSameOnBothTransports ==
    ~tunnel.broken =>
        /\ cli.calls # <<>> => cli.calls[1] = cli.targetAddr
        /\ SrvRank >= 1 =>
              /\ \E iv \in IVs :
                    srv.payload = Delivered(cli.key, srv.key, iv, cli.targetAddr)
              /\ srv.addr = Resolve(srv.payload)
        /\ srv.dialed # <<>> => srv.dialed = <<srv.addr>>
        /\ srv.calls # <<>> =>
              srv.calls = <<IF srv.dialOk THEN OK ELSE SrvErrorPayload>>
        /\ (CliRank = 2 /\ tunnel.open) =>
              /\ cli.resp \in {"ok", "rejected"}
              /\ \E iv \in IVs :
                    cli.response = Delivered(srv.key, cli.key, iv, srv.calls[1])
              /\ (cli.resp = "ok") = HasPrefix(cli.response, OK)
        /\ SrvRank = 2 => (srv.dialed # <<>> /\ SrvEstablished = srv.dialOk)

C33_Witness ==
    /\ tr = "ws" /\ ~tunnel.broken
    /\ cli.targetAddr = USE_DEFAULT /\ srv.dialed = <<DefaultTarget>>
    /\ srv.calls = <<SrvErrorPayload>> /\ cli.response = SrvErrorPayload
    /\ cli.resp = "rejected" /\ SrvFailed /\ CliFailed

(***************************************************************************)
(* Agreement of the two sides on the outcome                               *)
(***************************************************************************)
\* C34: with one password on both sides, the initiator has passed the
\* response test (it is about to send initial data, is relaying or has
\* relayed) only in a session whose responder dialled successfully and wrote
\* OK, and whose responder did not end Failed.
C34_BridgeOnlyWithEstablishedResponder ==
    (cli.key = srv.key /\ CliEstablished) =>
        /\ srv.dialed # <<>> /\ srv.dialOk
        /\ srv.calls = <<OK>>
        /\ cli.response = OK
        /\ ~SrvFailed

C34_Witness ==
    /\ tr = "tcp" /\ cli.key = srv.key
    /\ cli.pc = "bridge" /\ loops["cliDown"].rd = TargetData
    /\ srv.dialOk /\ srv.calls = <<OK>> /\ SrvEstablished

(***************************************************************************)
(* Proxy mode: the request of the local peer, then the session             *)
(***************************************************************************)
InitProxySpec ==
    IdleCrypto /\ IdleACL /\ IdleFront /\ IdleFrame /\ IdleBoot /\ IdleRest /\ InitProxy

NextProxy ==
    \/ CliReadRequest
    \/ CliReply200
    \/ NextSess

SpecProxy == InitProxySpec /\ [][NextProxy]_vars

\* C35: for a CONNECT request the write of the 200 reply to the local peer
\* has returned before the client connects to the server: when the handler
\* is about to dial there is no tunnel and no frame yet, and whenever there
\* is a tunnel or a frame the reply was written; a reply that was delivered
\* is the first thing the local peer received.
C35_ReplyBeforeHandshake ==
    cli.px.method = "CONNECT" =>
        /\ cli.pc = "dial" =>
              (cli.px.reply \in {"ok", "lost"} /\ ~tunnel.open /\ cli.calls = <<>>)
        /\ (tunnel.open \/ cli.calls # <<>> \/ cli.resp # "none") =>
              cli.px.reply \in {"ok", "lost"}
        /\ cli.px.reply = "ok" => IsPrefix(Reply200, owner.out)
        /\ cli.px.reply \in {"none", "err"} => owner.out = <<>>

\* the local peer holds the 200 reply and the handshake has ended in Failed
C35_Witness ==
    /\ cli.px.method = "CONNECT" /\ owner.out = Reply200
    /\ cli.pc = "closed" /\ cli.resp = "rejected" /\ owner.closed
    /\ srv.calls = <<SrvErrorPayload>>

\* the bytes of a sequence
Bytes(q) == {q[i] : i \in 1..Len(q)}

\* C36: the bytes the request's reader took from the local peer's stream
\* beyond the request are the ones that followed the request, and they are
\* in no frame the client writes (address, initial data, relayed chunk) and
\* never reach the target: what the relay reads starts behind them.
C36_ReadAheadDropped ==
    cli.px.method \in {"CONNECT", "GET"} =>
        /\ SubSeq(OwnerData, 1, owner.sent)
              = cli.px.ahead \o loops["cliUp"].rd \o owner.in
        /\ cli.pc # "request" =>
              cli.initialData = (IF cli.px.method = "CONNECT" THEN <<>>
                                 ELSE RequestBytes(cli.px.host))
        /\ \A b \in Bytes(cli.px.ahead) :
              /\ \A i \in 1..Len(cli.calls) : b \notin Bytes(cli.calls[i])
              /\ b \notin Bytes(loops["cliUp"].wr)
              /\ b \notin Bytes(loops["srvDown"].rd)
              /\ b \notin Bytes(target.out)

\* the relay has ended at the local peer's end of stream, and the target has
\* received fewer bytes than the local peer sent after its request
C36_Witness ==
    /\ cli.px.method = "CONNECT" /\ cli.px.ahead # <<>>
    /\ loops["cliUp"].end = "eof" /\ loops["srvDown"].end = "eof"
    /\ target.out = loops["cliUp"].rd
    /\ Len(target.out) < owner.sent

(***************************************************************************)
(* The policy outside its two modes, and the list a mode does not read     *)
(***************************************************************************)
\* C37: enabled and with a mode that is neither "whitelist" nor "blacklist",
\* IsAllowed permits exactly the peers whose address can be extracted,
\* whatever the lists hold; New keeps any mode string and returns no error
\* for it.
C37_UnknownModePermits ==
    /\ (acl.enabled /\ acl.mode \notin {ModeWhitelist, ModeBlacklist}) =>
          \A addr \in Addrs : IsAllowed(acl, addr) <=> (PeerIP(addr) # {})
    /\ \A cfg \in AclConfigs : ~New(cfg).err /\ New(cfg).acl.mode = cfg.Mode

C37_Witness ==
    /\ aclOp = "SetMode"
    /\ acl.enabled /\ acl.mode \notin {ModeWhitelist, ModeBlacklist}
    /\ AllowGroup(acl) # {} /\ DenyGroup(acl) # {}
    /\ \E addr \in Addrs : /\ PeerIP(addr) \cap DenyGroup(acl) # {}
                           /\ PeerIP(addr) \cap AllowGroup(acl) = {}
                           /\ IsAllowed(acl, addr)

\* contents the list a mode does not read may have
OtherLists ==
    [ips : {<<>>} \cup {<<x>> : x \in IPAddrs},
     nets : {<<>>, <<[base |-> 0, len |-> 0]>>, <<[base |-> 2, len |-> 1]>>}]

\* C38: enabled and in whitelist mode the decision is the same whatever the
\* blacklist holds, and in blacklist mode whatever the whitelist holds; an
\* address matched by both lists is permitted in whitelist mode and denied
\* in blacklist mode.
C38_OtherListIgnored ==
    acl.enabled =>
        /\ acl.mode = ModeWhitelist =>
              \A o \in OtherLists, addr \in Addrs :
                  IsAllowed([acl EXCEPT !.blackIPs = o.ips, !.blacklist = o.nets], addr)
                      = IsAllowed(acl, addr)
        /\ acl.mode = ModeBlacklist =>
              \A o \in OtherLists, addr \in Addrs :
                  IsAllowed([acl EXCEPT !.whiteIPs = o.ips, !.whitelist = o.nets], addr)
                      = IsAllowed(acl, addr)
        /\ \A addr \in Addrs :
              (PeerIP(addr) \cap AllowGroup(acl) \cap DenyGroup(acl) # {}) =>
                  /\ acl.mode = ModeWhitelist => IsAllowed(acl, addr)
                  /\ acl.mode = ModeBlacklist => ~IsAllowed(acl, addr)

C38_Witness ==
    /\ aclOp = "AddBlacklist"
    /\ acl.enabled /\ acl.mode = ModeWhitelist
    /\ \E addr \in Addrs : /\ PeerIP(addr) \cap AllowGroup(acl) \cap DenyGroup(acl) # {}
                           /\ IsAllowed(acl, addr)

(***************************************************************************)
(* Remove on lists that hold an entry more than once                       *)
(***************************************************************************)
Count(q, v) == Cardinality({i \in 1..Len(q) : q[i] = v})

\* after is before without its first element equal to v, or before itself
\* when it has none
FirstRemoved(before, after, v) ==
    IF Count(before, v) = 0 THEN after = before
    ELSE \E i \in 1..Len(before) :
            /\ before[i] = v
            /\ \A j \in 1..(i - 1) : before[j] # v
            /\ after = RemoveAt(before, i)

\* C39: on every reachable policy and for every entry string, RemoveWhitelist
\* and RemoveBlacklist leave the other list, the mode and the flag alone and
\* take from their own list at most one element, the first that equals the
\* parsed entry; an entry held twice is still matched after one Remove; an
\* absent, blank or unparseable entry changes nothing.
C39_RemoveDeletesFirstMatchOnly ==
    \A item \in Items :
        LET w == RemoveWhitelistOp(acl, item)
            b == RemoveBlacklistOp(acl, item)
        IN  /\ w.blacklist = acl.blacklist /\ w.blackIPs = acl.blackIPs
            /\ b.whitelist = acl.whitelist /\ b.whiteIPs = acl.whiteIPs
            /\ w.mode = acl.mode /\ w.enabled = acl.enabled
            /\ b.mode = acl.mode /\ b.enabled = acl.enabled
            /\ EntryCount(w) >= EntryCount(acl) - 1
            /\ EntryCount(b) >= EntryCount(acl) - 1
            /\ IF item.k = "ip"
               THEN /\ w.whitelist = acl.whitelist /\ b.blacklist = acl.blacklist
                    /\ FirstRemoved(acl.whiteIPs, w.whiteIPs, item.ip)
                    /\ FirstRemoved(acl.blackIPs, b.blackIPs, item.ip)
                    /\ Count(acl.whiteIPs, item.ip) >= 2 => item.ip \in AllowGroup(w)
                    /\ Count(acl.blackIPs, item.ip) >= 2 => item.ip \in DenyGroup(b)
               ELSE IF item.k = "cidr"
               THEN /\ w.whiteIPs = acl.whiteIPs /\ b.blackIPs = acl.blackIPs
                    /\ FirstRemoved(acl.whitelist, w.whitelist, ParseCIDR(item).net)
                    /\ FirstRemoved(acl.blacklist, b.blacklist, ParseCIDR(item).net)
               ELSE w = acl /\ b = acl

\* a Remove has run on a whitelist that holds an address twice, and one
\* more Remove of that address leaves it matched
C39_Witness ==
    /\ aclOp = "RemoveWhitelist"
    /\ acl.enabled /\ acl.mode = ModeWhitelist
    /\ \E v \in IPAddrs :
          /\ Count(acl.whiteIPs, v) = 2
          /\ LET w == RemoveWhitelistOp(acl, [k |-> "ip", ip |-> v, len |-> IPBits])
             IN  w.whiteIPs = <<v>> /\ IsAllowed(w, [host |-> [k |-> "ip", ip |-> v], port |-> TRUE])

(***************************************************************************)
(* A policy constructed disabled and switched on later                     *)
(***************************************************************************)
\* SetEnabled(true) is the first call on a policy that New made disabled
SwitchedOn ==
    /\ aclOp = "New" /\ ~acl.enabled
    /\ aclOp' = "SetEnabled" /\ acl'.enabled

NewDisabledIsEmpty ==
    /\ \A cfg \in AclConfigs : ~cfg.Enable => EntryCount(New(cfg).acl) = 0
    /\ (aclOp = "New" /\ ~acl.enabled) => EntryCount(acl) = 0

\* C40 as stated: New with Enable false stores no entry of the
\* configuration; switched on right after, the policy has empty lists, in
\* whitelist mode it denies every peer address and in blacklist mode it
\* permits every peer address.
C40_SwitchedOnDenyPermitsAll ==
    /\ []NewDisabledIsEmpty
    /\ [][SwitchedOn =>
            /\ EntryCount(acl') = 0
            /\ acl'.mode = ModeWhitelist => \A addr \in Addrs : ~IsAllowed(acl', addr)
            /\ acl'.mode = ModeBlacklist => \A addr \in Addrs : IsAllowed(acl', addr)]_vars

\* C40 amended: as above, but in blacklist mode it permits every peer
\* address from which an IP address can be extracted (the others are denied
\* by the enabled policy before any list is read).
C40_SwitchedOnDenyPermitsExtractable ==
    /\ []NewDisabledIsEmpty
    /\ [][SwitchedOn =>
            /\ EntryCount(acl') = 0
            /\ acl'.mode = ModeWhitelist => \A addr \in Addrs : ~IsAllowed(acl', addr)
            /\ acl'.mode = ModeBlacklist =>
                  \A addr \in Addrs : IsAllowed(acl', addr) <=> (PeerIP(addr) # {})]_vars

C40_Witness ==
    /\ aclOp = "SetEnabled" /\ acl.enabled /\ EntryCount(acl) = 0
    /\ acl.mode = ModeBlacklist
    /\ \A addr \in Addrs : IsAllowed(acl, addr) <=> (PeerIP(addr) # {})
    /\ \E addr \in Addrs : ~IsAllowed(acl, addr)

====
